---- MODULE Spec2Model ----
(***************************************************************************)
(* A model of the CLAP host adapter of src/CLAP/CLAP.cpp (class            *)
(* CLAPWrapper) together with the modules it hosts: the reference plugin   *)
(* of src/CLAP/example-plugin/plugin.cpp and a small catalogue of other    *)
(* modules that answer the contract calls of CLAPWrapper in the ways the   *)
(* code distinguishes.                                                     *)
(*                                                                         *)
(* Pointers are modelled by whether they are non-null (TRUE) or null       *)
(* (FALSE).  Sample and parameter values are integers: a parameter value   *)
(* n stands for the double n/8, and a float holds only the even n.         *)
(***************************************************************************)
EXTENDS Integers, Sequences, FiniteSets, TLC

\* ------------------------------------------------------------------ bounds

\* longest pending-event queue the setters are driven to
MaxQueue == 2
\* largest value the steady-time counter is driven to
MaxSteady == 2
\* the sample values the host is driven with
Samples == {0, 1}

\* ------------------------------------------------- the plugin contract

CLAP_PROCESS_ERROR == "CLAP_PROCESS_ERROR"
CLAP_PROCESS_CONTINUE == "CLAP_PROCESS_CONTINUE"
ProcessStatuses == {CLAP_PROCESS_ERROR, CLAP_PROCESS_CONTINUE}

CLAP_PLUGIN_FEATURE_INSTRUMENT == "instrument"
CLAP_PLUGIN_FEATURE_SYNTHESIZER == "synthesizer"

\* plugin.cpp: #define P_VOLUME (0), #define P_COUNT (1)
P_VOLUME == 0
P_COUNT == 1

\* the double -> float conversion of "plugin->parameters[i] = valueEvent->value":
\* round to the nearest float (an even n), ties to the even mantissa
FloatOf(v) ==
    IF v % 2 = 0 THEN v
    ELSE IF ((v - 1) \div 2) % 2 = 0 THEN v - 1 ELSE v + 1

\* ---------------------------------------------------- module catalogue
\* A path names a module file: which module it is (base) and the first
\* lifecycle step of load() that this file makes fail (failAt).

FailSteps == {"open", "sym", "entry_init", "factory", "count", "desc",
              "create", "init", "activate", "start"}
\* "ref" is the reference plugin of plugin.cpp, "fx" an effect with one
\* parameter, the preset-load extension and one discovery provider, "syn" an
\* instrument without parameters whose discovery factory has five providers
Path(b, f) == [base |-> b, failAt |-> f]
\* the files the host is driven to load: in general, with every failure step, and
\* the reference plugin
Paths == {Path("fx", "none"), Path("fx", "activate"),
          Path("syn", "none"), Path("syn", "create")}
LoadPaths == [base : {"fx"}, failAt : FailSteps \cup {"none"}]
             \cup [base : {"syn"}, failAt : {"none", "create", "activate", "start"}]
RefPaths == {Path("ref", "none"), Path("ref", "open")}
\* modules by what their preset discovery does: no factory ("ref"), a kept
\* provider ("fx"), a kept provider that rejects the location R ("syn"), no
\* provider that constructs and initializes ("nop")
DiscPaths == {Path("ref", "none"), Path("fx", "none"), Path("syn", "none"),
              Path("nop", "none"), Path("nop", "activate"), Path("fx", "start")}
NoModule == [base |-> "none", failAt |-> "none"]

\* desc->features of the first descriptor (a set: the code scans all of them)
Features(b) ==
    CASE b = "ref"   -> {CLAP_PLUGIN_FEATURE_INSTRUMENT, CLAP_PLUGIN_FEATURE_SYNTHESIZER, "stereo"}
      [] b = "fx"    -> {"audio-effect", "stereo"}
      [] b = "syn"   -> {CLAP_PLUGIN_FEATURE_SYNTHESIZER}
      [] OTHER       -> {}

\* get_extension(CLAP_EXT_PARAMS) is non-null
HasParamsExt(b) == b \in {"ref", "fx"}
\* get_extension(CLAP_EXT_AUDIO_PORTS), (CLAP_EXT_NOTE_PORTS)
HasAudioPortsExt(b) == b \in {"ref", "fx", "syn"}
HasNotePortsExt(b) == b \in {"ref", "syn"}
\* get_extension(CLAP_EXT_PRESET_LOAD) is non-null
HasPresetLoadExt(b) == b \in {"fx"}

\* m_params->count(m_plugin)
ParamsCount(b) ==
    CASE b = "ref" -> P_COUNT
      [] b = "fx"  -> 2
      [] OTHER     -> 0

\* m_params->get_info(m_plugin, i, &info), i counted from 0
ParamsGetInfo(b, i) ==
    CASE b = "ref" /\ i = P_VOLUME -> [ok |-> TRUE, id |-> P_VOLUME, name |-> "Volume"]
      [] b = "fx" /\ i = 1         -> [ok |-> TRUE, id |-> 1, name |-> "Gain"]
      [] OTHER                     -> [ok |-> FALSE, id |-> 0, name |-> ""]

\* parameter ids of the catalogue and the values the host is driven to set
ParamIds == {0, 1}
SetValues == {7}
RefValues == {0, 7}
Names == {"Gain", "doesNotExist"}
RefNames == {"Volume", "doesNotExist"}
PresetNames == {"p", "q", "doesNotExist"}

\* the plugin's parameter store and voice list after create + init
InitialPluginData(b) ==
    [parameters     |-> [i \in ParamIds |-> IF b = "ref" /\ i < P_COUNT THEN 4 ELSE 0],
     mainParameters |-> [i \in ParamIds |-> IF b = "ref" /\ i < P_COUNT THEN 4 ELSE 0],
     changed        |-> [i \in ParamIds |-> FALSE],
     mainChanged    |-> [i \in ParamIds |-> FALSE],
     voices         |-> << >>]
NoPluginData == InitialPluginData("none")

\* the preset-discovery factory of the module (entry->get_factory(CLAP_PRESET_DISCOVERY_FACTORY_ID))
HasDiscoveryFactory(b) == b \in {"fx", "syn", "nop"}

Loc(n, k) == [name |-> n, location |-> n, kind |-> k, flags |-> 0]
NoLocation == Loc("", 0)

\* the providers of the discovery factory, in factory order: whether
\* get_descriptor, create and init succeed and what init declares
Providers(b) ==
    CASE b = "fx"    -> << [desc |-> TRUE, create |-> TRUE, init |-> TRUE, declares |-> <<Loc("A", 0)>>] >>
      [] b = "syn"   -> << [desc |-> FALSE, create |-> TRUE, init |-> TRUE, declares |-> <<>>],
                           [desc |-> TRUE, create |-> TRUE, init |-> FALSE, declares |-> <<Loc("X", 1)>>],
                           [desc |-> TRUE, create |-> FALSE, init |-> TRUE, declares |-> <<>>],
                           [desc |-> TRUE, create |-> TRUE, init |-> TRUE,
                            declares |-> <<Loc("B", 0), Loc("R", 0)>>],
                           [desc |-> TRUE, create |-> TRUE, init |-> TRUE, declares |-> <<Loc("C", 0)>>] >>
      [] b = "nop"   -> << [desc |-> TRUE, create |-> TRUE, init |-> FALSE, declares |-> <<Loc("N", 0)>>],
                           [desc |-> TRUE, create |-> FALSE, init |-> TRUE, declares |-> <<>>] >>
      [] OTHER       -> << >>

\* a null const char*
NULL == "nullptr"

\* what provider p of module b reports through begin_preset when asked for
\* the metadata of a location: <<name, load_key>> pairs, the key NULL when
\* the preset has none (no pair for a location the provider rejects)
Metadata(b, p, loc) ==
    CASE b = "fx" /\ loc.location = "A"    -> << <<"p", NULL>>, <<"q", "k">>, <<"q", "m">> >>
      [] b = "syn" /\ loc.location = "X"   -> << <<"x", NULL>> >>
      [] b = "syn" /\ loc.location = "B"   -> << <<"p", NULL>>, <<"p", "k">> >>
      [] OTHER                             -> << >>

\* ------------------------------------------------------------ the state

VARIABLES
    \* CLAPWrapper fields (CLAP.cpp 908-956); a pointer is TRUE when non-null
    m_plugin, m_library, m_entry,
    m_bypass, m_isInstrument, m_activated, m_processing,
    m_params, m_audioPortsExt, m_notePortsExt, m_presetLoad,
    m_presetDiscoveryFactory,
    m_presetDiscoveryProvider,   \* 0 when null, else the factory index + 1 of the provider
    m_eventQueue, m_parameters, m_presets, m_discoveryLocations,
    m_currentPresetLocation,
    steady_time,                 \* m_process.steady_time
    errorLogged,                 \* the function-local static of tick()
    \* the hosted module
    mapped,                      \* the path whose library is mapped, or NoModule after dlclose
    pstate,                      \* the plugin instance: none, created, inited, active, processing
    pdata,                       \* the plugin instance's parameter store
    crashed,                     \* the process has aborted or faulted
    ticking,                     \* the tick between its process call and its queue clear, if any
    \* what the last host operation did
    lastOp,                      \* the operation and its arguments
    ret,                         \* what it returned ("none" when it did not return)
    calls,                       \* the calls it made into the module and the loader, in order
    stderr,                      \* the diagnostics of tick() it wrote
    ub                           \* it executed undefined behaviour

vars == << m_plugin, m_library, m_entry, m_bypass, m_isInstrument, m_activated,
           m_processing, m_params, m_audioPortsExt, m_notePortsExt, m_presetLoad,
           m_presetDiscoveryFactory, m_presetDiscoveryProvider, m_eventQueue,
           m_parameters, m_presets, m_discoveryLocations, m_currentPresetLocation,
           steady_time, errorLogged, mapped, pstate, pdata, crashed, ticking,
           lastOp, ret, calls, stderr, ub >>

\* the whole state as one record, so that one operation can call another
State ==
    [m_plugin |-> m_plugin, m_library |-> m_library, m_entry |-> m_entry,
     m_bypass |-> m_bypass, m_isInstrument |-> m_isInstrument,
     m_activated |-> m_activated, m_processing |-> m_processing,
     m_params |-> m_params, m_audioPortsExt |-> m_audioPortsExt,
     m_notePortsExt |-> m_notePortsExt, m_presetLoad |-> m_presetLoad,
     m_presetDiscoveryFactory |-> m_presetDiscoveryFactory,
     m_presetDiscoveryProvider |-> m_presetDiscoveryProvider,
     m_eventQueue |-> m_eventQueue, m_parameters |-> m_parameters,
     m_presets |-> m_presets, m_discoveryLocations |-> m_discoveryLocations,
     m_currentPresetLocation |-> m_currentPresetLocation,
     steady_time |-> steady_time, errorLogged |-> errorLogged,
     mapped |-> mapped, pstate |-> pstate, pdata |-> pdata,
     crashed |-> crashed, ticking |-> ticking,
     lastOp |-> lastOp, ret |-> ret, calls |-> calls, stderr |-> stderr, ub |-> ub]

Op(name, a, b, c, n) == [op |-> name, a |-> a, b |-> b, c |-> c, name |-> n]

\* the state a host operation starts from: nothing called yet
Begin(s, op) == [s EXCEPT !.lastOp = op, !.calls = << >>, !.stderr = << >>,
                          !.ub = FALSE, !.ret = "none"]

\* a call through a pointer into the module: undefined once the library is unmapped
Call(s, fn) ==
    [s EXCEPT !.calls = Append(@, [fn |-> fn, live |-> s.mapped # NoModule]),
              !.ub = @ \/ s.mapped = NoModule]
\* the last call, with what the module answered
Answered(s, res) ==
    [s EXCEPT !.calls[Len(s.calls)] =
        [fn |-> @.fn, live |-> @.live, res |-> res]]
\* (variant of Exposed: event_list_get indexes the queue from its end)
Exposed_lastFirst(s, events) ==
    [s EXCEPT !.calls[Len(s.calls)] =
        [fn |-> @.fn, live |-> @.live, res |-> @.res,
         events |-> [k \in 1..Len(events) |-> events[Len(events) + 1 - k]]]]
\* the last call, with the input-event list it could read (event_list_size / event_list_get)
Exposed(s, events) ==
    [s EXCEPT !.calls[Len(s.calls)] =
        [fn |-> @.fn, live |-> @.live, res |-> @.res, events |-> events]]
\* the last call, with the output events it pushed (event_list_try_push)
Pushed(s, events) ==
    [s EXCEPT !.calls[Len(s.calls)] =
        [f \in DOMAIN @ \cup {"pushed"} |-> IF f = "pushed" THEN events ELSE @[f]]]
\* the last call, with the arguments it was given
Passed(s, args) ==
    [s EXCEPT !.calls[Len(s.calls)] =
        [f \in DOMAIN @ \cup {"args"} |-> IF f = "args" THEN args ELSE @[f]]]
\* a call of the dynamic loader
LoaderCall(s, fn) == [s EXCEPT !.calls = Append(@, [fn |-> fn, live |-> TRUE])]

Return(s, v) == [s EXCEPT !.ret = v]

\* no tick is in flight
NotTicking == [input |-> 0, status |-> "none", out |-> 0, exposed |-> << >>]

\* CLAPWrapper::CLAPWrapper
Constructed ==
    [m_plugin |-> FALSE, m_library |-> FALSE, m_entry |-> FALSE,
     m_bypass |-> FALSE, m_isInstrument |-> FALSE,
     m_activated |-> FALSE, m_processing |-> FALSE,
     m_params |-> FALSE, m_audioPortsExt |-> FALSE,
     m_notePortsExt |-> FALSE, m_presetLoad |-> FALSE,
     m_presetDiscoveryFactory |-> FALSE,
     m_presetDiscoveryProvider |-> 0,
     m_eventQueue |-> << >>, m_parameters |-> << >>,
     m_presets |-> << >>, m_discoveryLocations |-> << >>,
     m_currentPresetLocation |-> NoLocation,
     steady_time |-> 0, errorLogged |-> FALSE,
     mapped |-> NoModule, pstate |-> "none", pdata |-> NoPluginData,
     crashed |-> FALSE, ticking |-> NotTicking,
     lastOp |-> Op("ctor", 0, 0, 0, ""), ret |-> "none", calls |-> << >>,
     stderr |-> << >>, ub |-> FALSE]

\* the process after an abort or a fault: it is gone, and its memory with it
Dead == [Constructed EXCEPT !.crashed = TRUE]

Init ==
    /\ m_plugin = Constructed.m_plugin
    /\ m_library = Constructed.m_library
    /\ m_entry = Constructed.m_entry
    /\ m_bypass = Constructed.m_bypass
    /\ m_isInstrument = Constructed.m_isInstrument
    /\ m_activated = Constructed.m_activated
    /\ m_processing = Constructed.m_processing
    /\ m_params = Constructed.m_params
    /\ m_audioPortsExt = Constructed.m_audioPortsExt
    /\ m_notePortsExt = Constructed.m_notePortsExt
    /\ m_presetLoad = Constructed.m_presetLoad
    /\ m_presetDiscoveryFactory = Constructed.m_presetDiscoveryFactory
    /\ m_presetDiscoveryProvider = Constructed.m_presetDiscoveryProvider
    /\ m_eventQueue = Constructed.m_eventQueue
    /\ m_parameters = Constructed.m_parameters
    /\ m_presets = Constructed.m_presets
    /\ m_discoveryLocations = Constructed.m_discoveryLocations
    /\ m_currentPresetLocation = Constructed.m_currentPresetLocation
    /\ steady_time = Constructed.steady_time
    /\ errorLogged = Constructed.errorLogged
    /\ mapped = Constructed.mapped
    /\ pstate = Constructed.pstate
    /\ pdata = Constructed.pdata
    /\ crashed = Constructed.crashed
    /\ ticking = Constructed.ticking
    /\ lastOp = Constructed.lastOp
    /\ ret = Constructed.ret
    /\ calls = Constructed.calls
    /\ stderr = Constructed.stderr
    /\ ub = Constructed.ub

\* the state an operation leaves: the process dies when an assertion aborted
\* it (abort) or when a call through a dangling pointer faults (fault); no
\* operation runs on an adapter whose destructor has run
Commit(r, abort, fault) ==
    /\ lastOp.op # "dtor"
    /\ \E t \in {IF abort \/ (r.ub /\ fault)
                  THEN [Dead EXCEPT !.lastOp = r.lastOp, !.calls = r.calls,
                                    !.stderr = r.stderr, !.ub = r.ub]
                  ELSE r} :
           /\ m_plugin' = t.m_plugin /\ m_library' = t.m_library /\ m_entry' = t.m_entry
           /\ m_bypass' = t.m_bypass /\ m_isInstrument' = t.m_isInstrument
           /\ m_activated' = t.m_activated /\ m_processing' = t.m_processing
           /\ m_params' = t.m_params /\ m_audioPortsExt' = t.m_audioPortsExt
           /\ m_notePortsExt' = t.m_notePortsExt /\ m_presetLoad' = t.m_presetLoad
           /\ m_presetDiscoveryFactory' = t.m_presetDiscoveryFactory
           /\ m_presetDiscoveryProvider' = t.m_presetDiscoveryProvider
           /\ m_eventQueue' = t.m_eventQueue /\ m_parameters' = t.m_parameters
           /\ m_presets' = t.m_presets /\ m_discoveryLocations' = t.m_discoveryLocations
           /\ m_currentPresetLocation' = t.m_currentPresetLocation
           /\ steady_time' = t.steady_time /\ errorLogged' = t.errorLogged
           /\ mapped' = t.mapped /\ pstate' = t.pstate /\ pdata' = t.pdata
           /\ crashed' = t.crashed /\ ticking' = t.ticking
           /\ lastOp' = t.lastOp /\ ret' = t.ret /\ calls' = t.calls
           /\ stderr' = t.stderr
           /\ ub' = t.ub

\* --------------------------------------------------------------- close

\* CLAPWrapper::cleanupPresetDiscovery
cleanupPresetDiscovery(s) ==
    LET s1 == IF s.m_presetDiscoveryProvider # 0
              THEN [Passed(Call(s, "provider.destroy"),
                           [provider |-> s.m_presetDiscoveryProvider]) EXCEPT
                       !.m_presetDiscoveryProvider = 0]
              ELSE s
    IN  [s1 EXCEPT !.m_presetDiscoveryFactory = FALSE,
                   !.m_presets = << >>,
                   !.m_discoveryLocations = << >>]

\* (variant of closePlugin: deactivates before it stops processing)
closePlugin_deactivateFirst(s) ==
    IF ~s.m_plugin THEN s
    ELSE LET s1 == IF s.m_activated
                   THEN [Call(s, "plugin.deactivate") EXCEPT
                            !.m_activated = FALSE, !.pstate = "inited"]
                   ELSE s
             s2 == IF s1.m_processing
                   THEN [Call(s1, "plugin.stop_processing") EXCEPT
                            !.m_processing = FALSE, !.pstate = "active"]
                   ELSE s1
         IN  [Call(s2, "plugin.destroy") EXCEPT
                 !.m_plugin = FALSE, !.pstate = "none", !.pdata = NoPluginData]

\* close(), lines 300-316: stop, deactivate and destroy the instance
closePlugin(s) ==
    IF ~s.m_plugin THEN s
    ELSE LET s1 == IF s.m_processing
                   THEN [Call(s, "plugin.stop_processing") EXCEPT
                            !.m_processing = FALSE, !.pstate = "active"]
                   ELSE s
             s2 == IF s1.m_activated
                   THEN [Call(s1, "plugin.deactivate") EXCEPT
                            !.m_activated = FALSE, !.pstate = "inited"]
                   ELSE s1
         IN  [Call(s2, "plugin.destroy") EXCEPT
                 !.m_plugin = FALSE, !.pstate = "none", !.pdata = NoPluginData]

\* close(), lines 318-328: deinit the entry and unload the library
closeModule(s) ==
    LET s1 == IF s.m_entry
              THEN [Call(s, "entry.deinit") EXCEPT !.m_entry = FALSE]
              ELSE s
    IN  IF s1.m_library
        THEN [LoaderCall(s1, "dlclose") EXCEPT !.m_library = FALSE, !.mapped = NoModule]
        ELSE s1

\* CLAPWrapper::close
close(s) ==
    LET s1 == closeModule(closePlugin(s))
        s2 == [s1 EXCEPT !.m_parameters = << >>,
                         !.m_isInstrument = FALSE,
                         !.m_params = FALSE,
                         !.m_audioPortsExt = FALSE,
                         !.m_notePortsExt = FALSE,
                         !.m_presetLoad = FALSE]
    IN  cleanupPresetDiscovery(s2)

\* ---------------------------------------------------------------- load

\* cacheParameters(), lines 641-651: the loop over the plugin's parameter indices
RECURSIVE cacheLoop(_, _, _)
cacheLoop(s, i, count) ==
    IF i >= count THEN s
    ELSE LET info == ParamsGetInfo(s.mapped.base, i)
             s1 == Call(s, "params.get_info")
             s2 == IF info.ok
                   THEN [s1 EXCEPT !.m_parameters =
                            Append(@, [id |-> info.id, name |-> info.name])]
                   ELSE s1
         IN  cacheLoop(s2, i + 1, count)

\* CLAPWrapper::cacheParameters
cacheParameters(s) ==
    LET s1 == [s EXCEPT !.m_parameters = << >>]
    IN  IF ~s1.m_params THEN s1
        ELSE cacheLoop(Call(s1, "params.count"), 0, ParamsCount(s1.mapped.base))

\* CLAPWrapper::receiver_begin_preset, called once per reported preset
RECURSIVE receiver_begin_preset(_, _)
receiver_begin_preset(s, reported) ==
    IF reported = << >> THEN s
    ELSE LET preset == [name          |-> Head(reported)[1],
                        load_key      |-> IF Head(reported)[2] = NULL THEN ""
                                          ELSE Head(reported)[2],
                        location      |-> s.m_currentPresetLocation.location,
                        location_kind |-> s.m_currentPresetLocation.kind]
         IN  receiver_begin_preset([s EXCEPT !.m_presets = Append(@, preset)],
                                   Tail(reported))

\* (variant of crawl: the location being crawled is not recorded)
RECURSIVE crawl_withoutCurrentLocation(_, _)
crawl_withoutCurrentLocation(s, locs) ==
    IF locs = << >> THEN s
    ELSE LET loc == Head(locs)
             s1 == Passed(Call(s, "provider.get_metadata"),
                          [location_kind |-> loc.kind, location |-> loc.location])
             s2 == receiver_begin_preset(
                       s1, Metadata(s.mapped.base, s.m_presetDiscoveryProvider, loc))
         IN  crawl_withoutCurrentLocation(s2, Tail(locs))

\* discoverPresets(), lines 775-780: crawl the declared locations
RECURSIVE crawl(_, _)
crawl(s, locs) ==
    IF locs = << >> THEN s
    ELSE LET loc == Head(locs)
             s1 == Passed(Call([s EXCEPT !.m_currentPresetLocation = loc],
                               "provider.get_metadata"),
                          [location_kind |-> loc.kind, location |-> loc.location])
             s2 == receiver_begin_preset(
                       s1, Metadata(s.mapped.base, s.m_presetDiscoveryProvider, loc))
         IN  crawl(s2, Tail(locs))

\* CLAPWrapper::discoverPresets
discoverPresets(s) ==
    IF s.m_presetDiscoveryProvider = 0 THEN s
    ELSE crawl(s, s.m_discoveryLocations)

\* CLAPWrapper::indexer_declare_location, called for each location a provider declares
RECURSIVE indexer_declare_location(_, _)
indexer_declare_location(s, locs) ==
    IF locs = << >> THEN s
    ELSE indexer_declare_location(
             [s EXCEPT !.m_discoveryLocations = Append(@, Head(locs))], Tail(locs))

\* (variant of providerLoop: a provider whose init fails is dropped without destroy)
RECURSIVE providerLoop_leakingFailed(_, _)
providerLoop_leakingFailed(s, i) ==
    LET provs == Providers(s.mapped.base)
    IN  IF i > Len(provs) THEN s
        ELSE LET p == provs[i]
                 s1 == Passed(Answered(Call(s, "discovery.get_descriptor"), p.desc),
                              [index |-> i - 1])
             IN  IF ~p.desc THEN providerLoop_leakingFailed(s1, i + 1)
                 ELSE LET created == IF p.create THEN i ELSE 0
                          s2 == [Passed(Answered(Call(s1, "discovery.create"), created),
                                        [index |-> i - 1]) EXCEPT
                                    !.m_presetDiscoveryProvider = created]
                      IN  IF ~p.create THEN providerLoop_leakingFailed(s2, i + 1)
                          ELSE LET s3 == indexer_declare_location(
                                             Passed(Answered(Call(s2, "provider.init"), p.init),
                                                    [provider |-> i]),
                                             p.declares)
                               IN  IF p.init THEN discoverPresets(s3)
                                   ELSE providerLoop_leakingFailed(
                                            [s3 EXCEPT
                                                !.m_presetDiscoveryProvider = 0],
                                            i + 1)

\* initPresetDiscovery(), lines 715-739: the loop over the factory's providers;
\* the calls carry the factory index, or the provider, they were made for
RECURSIVE providerLoop(_, _)
providerLoop(s, i) ==
    LET provs == Providers(s.mapped.base)
    IN  IF i > Len(provs) THEN s
        ELSE LET p == provs[i]
                 s1 == Passed(Answered(Call(s, "discovery.get_descriptor"), p.desc),
                              [index |-> i - 1])
             IN  IF ~p.desc THEN providerLoop(s1, i + 1)
                 ELSE LET created == IF p.create THEN i ELSE 0
                          s2 == [Passed(Answered(Call(s1, "discovery.create"), created),
                                        [index |-> i - 1]) EXCEPT
                                    !.m_presetDiscoveryProvider = created]
                      IN  IF ~p.create THEN providerLoop(s2, i + 1)
                          ELSE LET s3 == indexer_declare_location(
                                             Passed(Answered(Call(s2, "provider.init"), p.init),
                                                    [provider |-> i]),
                                             p.declares)
                               IN  IF p.init THEN discoverPresets(s3)
                                   ELSE providerLoop(
                                            [Passed(Call(s3, "provider.destroy"), [provider |-> i]) EXCEPT
                                                !.m_presetDiscoveryProvider = 0],
                                            i + 1)

\* CLAPWrapper::initPresetDiscovery
initPresetDiscovery(s) ==
    IF ~s.m_entry THEN s
    ELSE LET s1 == [Call(s, "entry.get_factory") EXCEPT
                       !.m_presetDiscoveryFactory = HasDiscoveryFactory(s.mapped.base)]
         IN  IF ~s1.m_presetDiscoveryFactory THEN s1
             ELSE LET s2 == Passed(Call(Call(s1, "entry.get_factory"),
                                        "factory.get_plugin_descriptor"),
                                   [index |-> 0])
                  IN  providerLoop(Call(s2, "discovery.count"), 1)

\* (variant of classify: strcmp's result used as a truth value, so any differing tag matches)
classify_strcmpAsBoolean(s) ==
    IF \E f \in Features(s.mapped.base) :
           f # CLAP_PLUGIN_FEATURE_INSTRUMENT \/ f # CLAP_PLUGIN_FEATURE_SYNTHESIZER
    THEN [s EXCEPT !.m_isInstrument = TRUE]
    ELSE s
\* load(), lines 214-226: the plugin is an instrument when a feature tag says so
classify(s) ==
    IF \E f \in Features(s.mapped.base) :
           f = CLAP_PLUGIN_FEATURE_INSTRUMENT \/ f = CLAP_PLUGIN_FEATURE_SYNTHESIZER
    THEN [s EXCEPT !.m_isInstrument = TRUE]
    ELSE s

\* the failure exits of load(): what each undoes before returning false
failUnload(s) ==
    Return([LoaderCall(s, "dlclose") EXCEPT
               !.m_library = FALSE, !.m_entry = FALSE, !.mapped = NoModule], FALSE)
\* (variant of failDeinit: unloads without calling the entry's deinit)
failDeinit_withoutDeinit(s) == failUnload(s)
\* lines 184-188 and the like: deinit, dlclose, return false
failDeinit(s) == failUnload(Call(s, "entry.deinit"))
failDestroy(s) ==
    failDeinit([Call(s, "plugin.destroy") EXCEPT
                   !.m_plugin = FALSE, !.pstate = "none", !.pdata = NoPluginData])
\* (variant of failDeactivate: the instance is destroyed while still activated)
failDeactivate_destroyingActive(s) ==
    failDestroy([s EXCEPT !.m_activated = FALSE])
\* (variant of the start_processing exit that forgets m_activated = false)
failDeactivate_keepingActivated(s) ==
    failDestroy([Call(s, "plugin.deactivate") EXCEPT !.pstate = "inited"])
failDeactivate(s) ==
    failDestroy([Call(s, "plugin.deactivate") EXCEPT
                    !.m_activated = FALSE, !.pstate = "inited"])

\* (variant of loadActivate: the load fails when no discovery provider was kept)
loadActivate_needingProvider(s, path) ==
    LET b == path.base
        s1 == [Call(Call(Call(Call(s, "plugin.get_extension"), "plugin.get_extension"),
                    "plugin.get_extension"), "plugin.get_extension") EXCEPT
                  !.m_params = HasParamsExt(b),
                  !.m_audioPortsExt = HasAudioPortsExt(b),
                  !.m_notePortsExt = HasNotePortsExt(b),
                  !.m_presetLoad = HasPresetLoadExt(b)]
        s2 == initPresetDiscovery(cacheParameters(s1))
        s3 == Answered(Call(s2, "plugin.activate"), path.failAt # "activate")
    IN  IF path.failAt = "activate" \/ s2.m_presetDiscoveryProvider = 0
        THEN failDestroy(s3)
        ELSE LET s4 == Answered(Call([s3 EXCEPT !.m_activated = TRUE,
                                                !.pstate = "active"],
                                     "plugin.start_processing"),
                                path.failAt # "start")
             IN  IF path.failAt = "start" THEN failDeactivate(s4)
                 ELSE Return([s4 EXCEPT !.m_processing = TRUE,
                                        !.pstate = "processing"], TRUE)

\* (variant of loadActivate: preset discovery runs before the parameters are cached)
loadActivate_discoveringFirst(s, path) ==
    LET b == path.base
        s1 == [Call(Call(Call(Call(s, "plugin.get_extension"), "plugin.get_extension"),
                    "plugin.get_extension"), "plugin.get_extension") EXCEPT
                  !.m_params = HasParamsExt(b),
                  !.m_audioPortsExt = HasAudioPortsExt(b),
                  !.m_notePortsExt = HasNotePortsExt(b),
                  !.m_presetLoad = HasPresetLoadExt(b)]
        s2 == cacheParameters(initPresetDiscovery(s1))
        s3 == Answered(Call(s2, "plugin.activate"), path.failAt # "activate")
    IN  IF path.failAt = "activate" THEN failDestroy(s3)
        ELSE LET s4 == Answered(Call([s3 EXCEPT !.m_activated = TRUE,
                                                !.pstate = "active"],
                                     "plugin.start_processing"),
                                path.failAt # "start")
             IN  IF path.failAt = "start" THEN failDeactivate(s4)
                 ELSE Return([s4 EXCEPT !.m_processing = TRUE,
                                        !.pstate = "processing"], TRUE)

\* load(), lines 253-295: from the extension queries to start_processing
loadActivate(s, path) ==
    LET b == path.base
        s1 == [Call(Call(Call(Call(s, "plugin.get_extension"), "plugin.get_extension"),
                    "plugin.get_extension"), "plugin.get_extension") EXCEPT
                  !.m_params = HasParamsExt(b),
                  !.m_audioPortsExt = HasAudioPortsExt(b),
                  !.m_notePortsExt = HasNotePortsExt(b),
                  !.m_presetLoad = HasPresetLoadExt(b)]
        s2 == initPresetDiscovery(cacheParameters(s1))
        s3 == Answered(Call(s2, "plugin.activate"), path.failAt # "activate")
    IN  IF path.failAt = "activate" THEN failDestroy(s3)
        ELSE LET s4 == Answered(Call([s3 EXCEPT !.m_activated = TRUE,
                                                !.pstate = "active"],
                                     "plugin.start_processing"),
                                path.failAt # "start")
             IN  IF path.failAt = "start" THEN failDeactivate(s4)
                 ELSE Return([s4 EXCEPT !.m_processing = TRUE,
                                        !.pstate = "processing"], TRUE)

\* load(), lines 177-251: from the factory lookup to the plugin's init
loadCreate(s, path) ==
    LET s1 == Call(s, "entry.get_factory")
    IN  IF path.failAt = "factory" THEN failDeinit(s1)
        ELSE LET s2 == Call(s1, "factory.get_plugin_count")
        IN  IF path.failAt = "count" THEN failDeinit(s2)
        ELSE LET s3 == Passed(Call(s2, "factory.get_plugin_descriptor"), [index |-> 0])
        IN  IF path.failAt = "desc" THEN failDeinit(s3)
        ELSE LET s4 == Passed(Answered(Call(classify(s3), "factory.create_plugin"),
                                       path.failAt # "create"),
                              [descriptor |-> 0])
        IN  IF path.failAt = "create" THEN failDeinit(s4)
        ELSE LET s5 == Answered(Call([s4 EXCEPT !.m_plugin = TRUE, !.pstate = "created",
                                                !.pdata = InitialPluginData(path.base)],
                                     "plugin.init"),
                                path.failAt # "init")
        IN  IF path.failAt = "init" THEN failDestroy(s5)
        ELSE loadActivate([s5 EXCEPT !.pstate = "inited"], path)

\* CLAPWrapper::~CLAPWrapper
dtor(s) == cleanupPresetDiscovery(close(s))

\* CLAPWrapper::load
load(s, path) ==
    LET s0 == Answered(LoaderCall(close(s), "dlopen"), path.failAt # "open")
    IN  IF path.failAt = "open" THEN Return(s0, FALSE)
        ELSE LET s1 == LoaderCall([s0 EXCEPT !.m_library = TRUE, !.mapped = path],
                                  "dlsym")
        IN  IF path.failAt = "sym"
            THEN Return([LoaderCall(s1, "dlclose") EXCEPT
                            !.m_library = FALSE, !.mapped = NoModule], FALSE)
        ELSE LET s2 == Answered(Call([s1 EXCEPT !.m_entry = TRUE], "entry.init"),
                                path.failAt # "entry_init")
        IN  IF path.failAt = "entry_init" THEN failUnload(s2)
        ELSE loadCreate(s2, path)

\* ---------------------------------------------------------------- tick

CLAP_EVENT_NOTE_OFF == "CLAP_EVENT_NOTE_OFF"
CLAP_EVENT_NOTE_ON == "CLAP_EVENT_NOTE_ON"
CLAP_EVENT_PARAM_VALUE == "CLAP_EVENT_PARAM_VALUE"
CLAP_EVENT_NOTE_END == "CLAP_EVENT_NOTE_END"

\* PluginProcessEvent (plugin.cpp 110-116) for a parameter-value event.  The
\* index is the event's param_id, unchecked: parameters[P_COUNT + k] is the
\* storage of mainParameters[k] and changed[P_COUNT + k] that of mainChanged[k].
refParamValue(d, ev) ==
    LET i == ev.param_id
    IN  IF i < P_COUNT
        THEN [d EXCEPT !.parameters[i] = FloatOf(ev.value), !.changed[i] = TRUE]
        ELSE IF i - P_COUNT < P_COUNT
        THEN [d EXCEPT !.mainParameters[i - P_COUNT] = FloatOf(ev.value),
                       !.mainChanged[i - P_COUNT] = TRUE]
        ELSE d

\* PluginSyncMainToAudio (plugin.cpp 152-178)
PluginSyncMainToAudio(d) ==
    [d EXCEPT !.parameters = [i \in ParamIds |->
                  IF i < P_COUNT /\ d.mainChanged[i] THEN d.mainParameters[i]
                  ELSE d.parameters[i]],
              !.mainChanged = [i \in ParamIds |->
                  IF i < P_COUNT THEN FALSE ELSE d.mainChanged[i]]]

\* the events PluginSyncMainToAudio pushes to the host: one parameter-value
\* event per parameter the main thread changed
PluginSyncPushed(d) ==
    LET changedIds == SelectSeq([k \in 1..P_COUNT |-> k - 1],
                                LAMBDA i : d.mainChanged[i])
    IN  [k \in 1..Len(changedIds) |->
            [type |-> CLAP_EVENT_PARAM_VALUE, time |-> 0, param_id |-> changedIds[k],
             value |-> d.mainParameters[changedIds[k]],
             note_id |-> -1, port_index |-> -1, channel |-> -1, key |-> -1,
             velocity |-> 0]]

\* PluginProcessEvent (plugin.cpp 81-90): the note event matches the voice;
\* -1 in the event matches anything
refMatches(voice, ev) ==
    /\ (ev.key = -1 \/ voice.key = ev.key)
    /\ (ev.note_id = -1 \/ voice.noteID = ev.note_id)
    /\ (ev.channel = -1 \/ voice.channel = ev.channel)

\* PluginProcessEvent (plugin.cpp 80-109) for a note-on or note-off event:
\* every matching voice is released, and a note-on adds a held voice at the end
refNote(d, ev) ==
    LET released == [k \in 1..Len(d.voices) |->
                        IF refMatches(d.voices[k], ev)
                        THEN [d.voices[k] EXCEPT !.held = FALSE]
                        ELSE d.voices[k]]
    IN  [d EXCEPT !.voices =
            IF ev.type = CLAP_EVENT_NOTE_ON
            THEN Append(released, [held |-> TRUE, noteID |-> ev.note_id,
                                   channel |-> ev.channel, key |-> ev.key])
            ELSE released]

\* the events of one process call, in list order, applied to the plugin's
\* data; the host passes one frame, so the reference plugin handles the
\* events up to the first whose time is not 0
RECURSIVE PluginProcessEvents(_, _, _)
PluginProcessEvents(b, d, evs) ==
    IF evs = << >> THEN d
    ELSE LET ev == Head(evs)
         IN  IF b = "ref" /\ ev.time # 0 THEN d
             ELSE LET d1 == IF ev.type = CLAP_EVENT_PARAM_VALUE
                            THEN IF b = "ref" THEN refParamValue(d, ev)
                                 ELSE [d EXCEPT !.parameters[ev.param_id] = ev.value]
                            ELSE IF b = "ref" THEN refNote(d, ev)
                            ELSE d
                  IN  PluginProcessEvents(b, d1, Tail(evs))

\* the note-end event of a released voice (plugin.cpp 403-411)
NoteEnd(voice) ==
    [type |-> CLAP_EVENT_NOTE_END, time |-> 0, param_id |-> 0, value |-> 0,
     note_id |-> voice.noteID, port_index |-> 0, channel |-> voice.channel,
     key |-> voice.key, velocity |-> 0]

\* (variant of releaseLoop: the index is not stepped back after a Delete)
RECURSIVE releaseLoop_skippingNext(_, _, _)
releaseLoop_skippingNext(voices, i, pushed) ==
    IF i > Len(voices) THEN [voices |-> voices, pushed |-> pushed]
    ELSE IF ~voices[i].held
    THEN releaseLoop_skippingNext(
             SubSeq(voices, 1, i - 1) \o SubSeq(voices, i + 1, Len(voices)),
             i + 1, Append(pushed, NoteEnd(voices[i])))
    ELSE releaseLoop_skippingNext(voices, i + 1, pushed)

\* process (plugin.cpp 398-416): from voice i (counted from 1) on, a voice
\* that is not held has its note-end pushed and is deleted, and the loop goes
\* on at the voice that took its place
RECURSIVE releaseLoop(_, _, _)
releaseLoop(voices, i, pushed) ==
    IF i > Len(voices) THEN [voices |-> voices, pushed |-> pushed]
    ELSE IF ~voices[i].held
    THEN releaseLoop(SubSeq(voices, 1, i - 1) \o SubSeq(voices, i + 1, Len(voices)),
                     i, Append(pushed, NoteEnd(voices[i])))
    ELSE releaseLoop(voices, i + 1, pushed)

\* the plugin's data when the events of a process call have been handled
PluginHandled(b, d, evs) ==
    PluginProcessEvents(b, IF b = "ref" THEN PluginSyncMainToAudio(d) ELSE d, evs)

\* the process call of the mapped module's plugin on the exposed event list
PluginProcess(b, d, evs) ==
    IF b = "ref"
    THEN [PluginHandled(b, d, evs) EXCEPT !.voices = releaseLoop(@, 1, << >>).voices]
    ELSE PluginHandled(b, d, evs)

\* the output events that process call pushes to the host, in order
PluginPushed(b, d, evs) ==
    IF b = "ref"
    THEN PluginSyncPushed(d) \o releaseLoop(PluginHandled(b, d, evs).voices, 1, << >>).pushed
    ELSE << >>

\* the reference plugin writes outside parameters[] when an event's id is no index of it
OutOfBounds(b, evs) ==
    b = "ref" /\ \E k \in 1..Len(evs) :
        evs[k].type = CLAP_EVENT_PARAM_VALUE /\ evs[k].param_id >= P_COUNT

\* m_process.audio_inputs_count and audio_outputs_count, set by the constructor
audio_inputs_count == 1
audio_outputs_count == 1

\* plugin.cpp 366-367: the assertions at the entry of the reference plugin's process
ProcessAssertions(b) ==
    b = "ref" => (audio_outputs_count = 1 /\ audio_inputs_count = 0)

\* tick(), line 341: with no instance, not processing or bypassed, tick is the identity
\* (variants: without the bypass test, and with the bypass test alone)
tickPassthrough_ignoringBypass(s) == ~s.m_plugin \/ ~s.m_processing
tickPassthrough_onlyBypass(s) == s.m_bypass
tickPassthrough(s) == ~s.m_plugin \/ ~s.m_processing \/ s.m_bypass

\* (variant of tickErrorOutput: passthrough for instruments too)
tickErrorOutput_alwaysInput(s, input) == input
\* tick(), line 368: what tick returns when process reported an error
tickErrorOutput(s, input) == IF s.m_isInstrument THEN 0 ELSE input

\* tick(), lines 344-352: the buffers and the process call; status and out
\* are what the plugin's process call returns and leaves in the first output
\* channel
tickProcess(s, input, status, out) ==
    LET b == s.mapped.base
    IN  [Pushed(Passed(Exposed(Answered(Call(s, "plugin.process"), status),
                               s.m_eventQueue),
                       [steady_time |-> s.steady_time,
                        audio_inputs_count |-> audio_inputs_count,
                        audio_outputs_count |-> audio_outputs_count]),
                PluginPushed(b, s.pdata, s.m_eventQueue)) EXCEPT
            !.ub = @ \/ OutOfBounds(b, s.m_eventQueue),
            !.pdata = PluginProcess(b, @, s.m_eventQueue)]

\* (variant of logProcessingError: the flag is not set)
logProcessingError_forgetting(s) ==
    IF s.errorLogged THEN s
    ELSE [s EXCEPT !.stderr = Append(@, "[CLAP]: Processing error")]

\* tick(), lines 361-366: the diagnostic, written while the static flag is unset
logProcessingError(s) ==
    IF s.errorLogged THEN s
    ELSE [s EXCEPT !.stderr = Append(@, "[CLAP]: Processing error"),
                   !.errorLogged = TRUE]

\* (variant of tickReturn: the queue is not cleared)
tickReturn_withoutClear(s, input, status, out) ==
    LET s2 == [s EXCEPT !.steady_time = @ + 1]
    IN  IF status = CLAP_PROCESS_ERROR
        THEN Return(logProcessingError(s2), tickErrorOutput(s2, input))
        ELSE Return(s2, out)

\* (variant of tickReturn: a process call that failed is not counted)
tickReturn_countingSuccesses(s, input, status, out) ==
    LET s2 == [s EXCEPT !.m_eventQueue = << >>]
    IN  IF status = CLAP_PROCESS_ERROR
        THEN Return(logProcessingError(s2), tickErrorOutput(s2, input))
        ELSE Return([s2 EXCEPT !.steady_time = @ + 1], out)

\* tick(), lines 354-372: clear the queue, count the call, choose the output
tickReturn(s, input, status, out) ==
    LET s2 == [s EXCEPT !.m_eventQueue = << >>,
                        !.steady_time = @ + 1]
    IN  IF status = CLAP_PROCESS_ERROR
        THEN Return(logProcessingError(s2), tickErrorOutput(s2, input))
        ELSE Return(s2, out)

\* (variant of tick: a tick that passes the sample through drops the pending events)
tick_clearingWhenBypassed(s, input, status, out) ==
    IF tickPassthrough(s)
    THEN Return([s EXCEPT !.m_eventQueue = << >>], input)
    ELSE tickReturn(tickProcess(s, input, status, out), input, status, out)

\* CLAPWrapper::tick
tick(s, input, status, out) ==
    IF tickPassthrough(s)
    THEN Return(s, input)
    ELSE tickReturn(tickProcess(s, input, status, out), input, status, out)

\* ---------------------------------------------------------- parameters

ParamValueEvent(id, value) ==
    [type |-> CLAP_EVENT_PARAM_VALUE, time |-> 0, param_id |-> id, value |-> value,
     note_id |-> -1, port_index |-> -1, channel |-> -1, key |-> -1, velocity |-> 0]

\* m_eventQueue.push_back: no lock is taken, so a push made while a tick is
\* in flight is a data race on the vector (undefined)
push_back(s, ev) ==
    [s EXCEPT !.m_eventQueue = Append(@, ev),
              !.ub = @ \/ s.ticking # NotTicking]

\* (variant of setParameter: tags the event with the index instead of the id)
setParameter_indexAsId(s, index, value) ==
    IF ~s.m_params \/ index < 0 \/ index >= Len(s.m_parameters)
    THEN Return(s, FALSE)
    ELSE Return(push_back(s, ParamValueEvent(index, value)), TRUE)

\* CLAPWrapper::setParameter; index counts from 0
setParameter(s, index, value) ==
    IF ~s.m_params \/ index < 0 \/ index >= Len(s.m_parameters)
    THEN Return(s, FALSE)
    ELSE LET param_id == s.m_parameters[index + 1].id
         IN  Return(push_back(s, ParamValueEvent(param_id, value)), TRUE)

\* the first index whose cached name equals name, or -1
RECURSIVE FindName(_, _, _)
FindName(seq, name, i) ==
    IF i > Len(seq) THEN -1
    ELSE IF seq[i].name = name THEN i - 1
    ELSE FindName(seq, name, i + 1)

\* CLAPWrapper::setParameterByName
setParameterByName(s, name, value) ==
    IF ~s.m_params THEN Return(s, FALSE)
    ELSE LET i == FindName(s.m_parameters, name, 1)
         IN  IF i >= 0 THEN setParameter(s, i, value) ELSE Return(s, FALSE)

\* m_params->get_value of the mapped module's plugin: <<success, value>>
ParamsGetValue(b, d, id) ==
    IF b = "ref"
    THEN IF id >= P_COUNT THEN <<FALSE, 0>>
         ELSE <<TRUE, IF d.mainChanged[id] THEN d.mainParameters[id]
                      ELSE d.parameters[id]>>
    ELSE <<TRUE, d.parameters[id]>>

\* CLAPWrapper::getParameter; any is what a get_value reached through a
\* pointer into an unmapped library answers
getParameter(s, index, any) ==
    IF ~s.m_params \/ index < 0 \/ index >= Len(s.m_parameters)
    THEN Return(s, 0)
    ELSE LET param_id == s.m_parameters[index + 1].id
             s1 == Call(s, "params.get_value")
             got == IF s.mapped = NoModule THEN any
                    ELSE ParamsGetValue(s.mapped.base, s.pdata, param_id)
         IN  Return(s1, IF got[1] THEN got[2] ELSE 0)

\* (variant of getParameterByName: found derived from the value, not from the match)
getParameterByName_foundWhenNonZero(s, name, any) ==
    IF ~s.m_params THEN Return(s, [value |-> 0, found |-> FALSE])
    ELSE LET i == FindName(s.m_parameters, name, 1)
         IN  IF i >= 0
             THEN LET s1 == getParameter(s, i, any)
                  IN  Return(s1, [value |-> s1.ret, found |-> s1.ret # 0])
             ELSE Return(s, [value |-> 0, found |-> FALSE])
\* CLAPWrapper::getParameterByName, returning the value and *found
getParameterByName(s, name, any) ==
    IF ~s.m_params THEN Return(s, [value |-> 0, found |-> FALSE])
    ELSE LET i == FindName(s.m_parameters, name, 1)
         IN  IF i >= 0
             THEN LET s1 == getParameter(s, i, any)
                  IN  Return(s1, [value |-> s1.ret, found |-> TRUE])
             ELSE Return(s, [value |-> 0, found |-> FALSE])

\* CLAPWrapper::getParameterName
getParameterName(s, index) ==
    IF index < 0 \/ index >= Len(s.m_parameters) THEN Return(s, "")
    ELSE Return(s, s.m_parameters[index + 1].name)

\* CLAPWrapper::getParameterCount
getParameterCount(s) == Return(s, Len(s.m_parameters))

\* CLAPWrapper::setBypass
setBypass(s, bypass) == Return([s EXCEPT !.m_bypass = bypass], "void")

\* ---------------------------------------------------------------- MIDI

\* the conversion of "noteEvent.key = data1": t_CKINT to int16_t
Int16(x) == ((x + 32768) % 65536) - 32768

NoteEvent(type, channel, key, data2) ==
    [type |-> type, time |-> 0, param_id |-> 0, value |-> 0,
     note_id |-> -1, port_index |-> 0, channel |-> channel, key |-> Int16(key),
     velocity |-> data2]   \* velocity in 127ths: data2 / 127.0

\* lines 490 and 495: the queue element is copied from the 40-byte note event
\* through a pointer to the 56-byte parameter-value event, a read of 16 bytes
\* past the object (undefined); the bytes land behind the note's fields
pushNote(s, ev) == [push_back(s, ev) EXCEPT !.ub = TRUE]

\* (variant of sendMIDI: control and program changes take the default branch)
sendMIDI_rejectingControl(s, status, data1, data2) ==
    IF ~s.m_plugin \/ ~s.m_processing \/ ~s.m_isInstrument
    THEN Return(s, FALSE)
    ELSE LET channel == (status % 256) % 16
             messageType == (status % 256) - channel
         IN  CASE messageType = 144 ->
                    Return(pushNote(s, NoteEvent(CLAP_EVENT_NOTE_ON, channel,
                                                 data1, data2)), TRUE)
               [] messageType = 128 ->
                    Return(pushNote(s, NoteEvent(CLAP_EVENT_NOTE_OFF, channel,
                                                 data1, data2)), TRUE)
               [] OTHER -> Return(s, FALSE)

\* CLAPWrapper::sendMIDI
sendMIDI(s, status, data1, data2) ==
    IF ~s.m_plugin \/ ~s.m_processing \/ ~s.m_isInstrument
    THEN Return(s, FALSE)
    ELSE LET channel == (status % 256) % 16
             messageType == (status % 256) - channel
         IN  CASE messageType = 144 ->
                    Return(pushNote(s, NoteEvent(CLAP_EVENT_NOTE_ON, channel,
                                                 data1, data2)), TRUE)
               [] messageType = 128 ->
                    Return(pushNote(s, NoteEvent(CLAP_EVENT_NOTE_OFF, channel,
                                                 data1, data2)), TRUE)
               [] messageType \in {176, 192} -> Return(s, TRUE)
               [] OTHER -> Return(s, FALSE)

\* CLAPWrapper::noteOn, noteOff
noteOn(s, pitch, velocity) == sendMIDI(s, 144, pitch, velocity)
noteOff(s, pitch) == sendMIDI(s, 128, pitch, 0)

\* CLAPWrapper::isInstrument
isInstrument(s) == Return(s, s.m_isInstrument)

\* -------------------------------------------------------------- presets

\* CLAPWrapper::getPresetCount
getPresetCount(s) == Return(s, Len(s.m_presets))

\* CLAPWrapper::getPresetName
getPresetName(s, index) ==
    IF index < 0 \/ index >= Len(s.m_presets) THEN Return(s, "")
    ELSE Return(s, s.m_presets[index + 1].name)

\* loadPreset(), line 548: the load key argument
loadKeyArgument(load_key) == IF load_key = "" THEN NULL ELSE load_key

\* (variant of loadPreset: the cached key is passed as it is)
loadPreset_keyAsCached(s, index, loaded) ==
    IF ~s.m_presetLoad \/ index < 0 \/ index >= Len(s.m_presets)
    THEN Return(s, FALSE)
    ELSE LET preset == s.m_presets[index + 1]
         IN  Return(Passed(Answered(Call(s, "preset_load.from_location"), loaded),
                           [location_kind |-> preset.location_kind,
                            location |-> preset.location,
                            load_key |-> preset.load_key]), loaded)

\* CLAPWrapper::loadPreset; loaded is what the plugin's from_location returns
loadPreset(s, index, loaded) ==
    IF ~s.m_presetLoad \/ index < 0 \/ index >= Len(s.m_presets)
    THEN Return(s, FALSE)
    ELSE LET preset == s.m_presets[index + 1]
         IN  Return(Passed(Answered(Call(s, "preset_load.from_location"), loaded),
                           [location_kind |-> preset.location_kind,
                            location |-> preset.location,
                            load_key |-> loadKeyArgument(preset.load_key)]), loaded)

\* (variant of loadPresetByName: the name is not compared, the first preset is loaded)
loadPresetByName_firstPreset(s, name, loaded) ==
    IF ~s.m_presetLoad THEN Return(s, FALSE)
    ELSE loadPreset(s, 0, loaded)
\* CLAPWrapper::loadPresetByName
loadPresetByName(s, name, loaded) ==
    IF ~s.m_presetLoad THEN Return(s, FALSE)
    ELSE LET i == FindName(s.m_presets, name, 1)
         IN  IF i >= 0 THEN loadPreset(s, i, loaded) ELSE Return(s, FALSE)

\* -------------------------------------------------------------- actions
\* One action per method of the host-facing surface (CK_DLL_MFUN / CK_DLL_TICK).

Indices == -1..1
Statuses == {129, 144, 176, 192, 240}
Pitches == {60}
Velocities == {100}
\* the notes played on the reference plugin: two keys, and note-on and
\* note-off on MIDI channel 2
VoicePitches == {60, 61}
VoiceStatuses == {145, 129}
\* data bytes of a MIDI message, and arguments that are no data bytes
MidiKeys == {60, 70000}
MidiData == {100, 200}
\* what a get_value reached through a dangling m_params may answer
AnyValue == {<<FALSE, 0>>, <<TRUE, 0>>, <<TRUE, 7>>}

\* whether a call through a dangling pointer, or a read past an object,
\* faults is the build's choice
Faults(r) == IF r.ub THEN BOOLEAN ELSE {FALSE}

Load(path) ==
    /\ ~crashed /\ ticking = NotTicking
    /\ \E r \in {load(Begin(State, Op("load", path.failAt, 0, 0, path.base)), path)} :
           \E fault \in Faults(r) : Commit(r, FALSE, fault)

Close ==
    /\ ~crashed
    /\ \E r \in {Return(close(Begin(State, Op("close", 0, 0, 0, ""))), "void")} :
           \E fault \in Faults(r) : Commit(r, FALSE, fault)

\* the adapter is destructed (no tick is in flight)
Destroy ==
    /\ ~crashed /\ ticking = NotTicking
    /\ \E r \in {Return(dtor(Begin(State, Op("dtor", 0, 0, 0, ""))), "void")} :
           \E fault \in Faults(r) : Commit(r, FALSE, fault)

\* the statuses the mapped plugin's process call can return
StatusesOf(b) == IF b = "ref" THEN {CLAP_PROCESS_CONTINUE} ELSE ProcessStatuses

\* a failed assertion aborts the process unless the plugin was built with NDEBUG
Aborts(b) == IF ProcessAssertions(b) THEN {FALSE} ELSE BOOLEAN

Tick(input) ==
    /\ ~crashed
    /\ IF tickPassthrough(State)
       THEN Commit(tick(Begin(State, Op("tick", input, 0, 0, "")), input,
                        CLAP_PROCESS_CONTINUE, 0), FALSE, FALSE)
       ELSE /\ steady_time < MaxSteady
            /\ \E status \in StatusesOf(mapped.base),
                  out \in Samples,
                  abort \in Aborts(mapped.base),
                  fault \in (IF OutOfBounds(mapped.base, m_eventQueue)
                             THEN BOOLEAN ELSE {FALSE}) :
                   Commit(tick(Begin(State, Op("tick", input, 0, 0, "")),
                               input, status, out), abort, fault)

\* A tick that runs while the control context is not held off, in two
\* steps: up to the return of the process call, and from the queue clear on.
TickProcess(input) ==
    /\ ~crashed /\ ticking = NotTicking
    /\ ~tickPassthrough(State)
    /\ steady_time < MaxSteady
    /\ \E status \in StatusesOf(mapped.base),
          out \in Samples,
          abort \in Aborts(mapped.base),
          fault \in (IF OutOfBounds(mapped.base, m_eventQueue)
                     THEN BOOLEAN ELSE {FALSE}) :
           Commit([tickProcess(Begin(State, Op("tick", input, 0, 0, "")),
                               input, status, out) EXCEPT
                      !.ticking = [input |-> input, status |-> status, out |-> out,
                                   exposed |-> m_eventQueue]],
                  abort, fault)

TickReturn ==
    /\ ~crashed /\ ticking # NotTicking
    /\ Commit([tickReturn(Begin(State, Op("tick", ticking.input, 0, 0, "")),
                          ticking.input, ticking.status, ticking.out) EXCEPT
                  !.ticking = NotTicking],
              FALSE, FALSE)

SetBypass(bypass) ==
    /\ ~crashed
    /\ Commit(setBypass(Begin(State, Op("bypass", 0, 0, 0, "")), bypass), FALSE, FALSE)

SetParam(index, value) ==
    /\ ~crashed
    /\ \E r \in {setParameter(Begin(State, Op("setParam", index, value, 0, "")),
                              index, value)} :
           /\ Len(r.m_eventQueue) <= MaxQueue
           /\ \E fault \in Faults(r) : Commit(r, FALSE, fault)

SetParamByName(name, value) ==
    /\ ~crashed
    /\ \E r \in {setParameterByName(Begin(State, Op("setParamByName", 0, value, 0, name)),
                                    name, value)} :
           /\ Len(r.m_eventQueue) <= MaxQueue
           /\ \E fault \in Faults(r) : Commit(r, FALSE, fault)

GetParam(index) ==
    /\ ~crashed
    /\ \E any \in (IF mapped = NoModule THEN AnyValue ELSE {<<FALSE, 0>>}) :
       \E r \in {getParameter(Begin(State, Op("getParam", index, 0, 0, "")), index, any)} :
       \E fault \in Faults(r) : Commit(r, FALSE, fault)

GetParamByName(name) ==
    /\ ~crashed
    /\ \E any \in (IF mapped = NoModule THEN AnyValue ELSE {<<FALSE, 0>>}) :
       \E r \in {getParameterByName(Begin(State, Op("getParamByName", 0, 0, 0, name)),
                                    name, any)} :
       \E fault \in Faults(r) : Commit(r, FALSE, fault)

GetParamName(index) ==
    /\ ~crashed
    /\ Commit(getParameterName(Begin(State, Op("paramName", index, 0, 0, "")), index),
              FALSE, FALSE)

GetParamCount ==
    /\ ~crashed
    /\ Commit(getParameterCount(Begin(State, Op("paramCount", 0, 0, 0, ""))), FALSE, FALSE)

SendMIDI(status, data1, data2) ==
    /\ ~crashed
    /\ \E r \in {sendMIDI(Begin(State, Op("sendMIDI", status, data1, data2, "")),
                          status, data1, data2)} :
           /\ Len(r.m_eventQueue) <= MaxQueue
           /\ \E fault \in Faults(r) : Commit(r, FALSE, fault)

NoteOn(pitch, velocity) ==
    /\ ~crashed
    /\ \E r \in {noteOn(Begin(State, Op("noteOn", pitch, velocity, 0, "")),
                        pitch, velocity)} :
           /\ Len(r.m_eventQueue) <= MaxQueue
           /\ \E fault \in Faults(r) : Commit(r, FALSE, fault)

NoteOff(pitch) ==
    /\ ~crashed
    /\ \E r \in {noteOff(Begin(State, Op("noteOff", pitch, 0, 0, "")), pitch)} :
           /\ Len(r.m_eventQueue) <= MaxQueue
           /\ \E fault \in Faults(r) : Commit(r, FALSE, fault)

IsInstrument ==
    /\ ~crashed
    /\ Commit(isInstrument(Begin(State, Op("isInstrument", 0, 0, 0, ""))), FALSE, FALSE)

GetPresetCount ==
    /\ ~crashed
    /\ Commit(getPresetCount(Begin(State, Op("presetCount", 0, 0, 0, ""))), FALSE, FALSE)

GetPresetName(index) ==
    /\ ~crashed
    /\ Commit(getPresetName(Begin(State, Op("presetName", index, 0, 0, "")), index),
              FALSE, FALSE)

LoadPreset(index) ==
    /\ ~crashed
    /\ \E loaded \in BOOLEAN :
       \E r \in {loadPreset(Begin(State, Op("loadPreset", index, 0, 0, "")),
                            index, loaded)} :
       \E fault \in Faults(r) : Commit(r, FALSE, fault)

LoadPresetByName(name) ==
    /\ ~crashed
    /\ \E loaded \in BOOLEAN :
       \E r \in {loadPresetByName(Begin(State, Op("loadPresetByName", 0, 0, 0, name)),
                                  name, loaded)} :
       \E fault \in Faults(r) : Commit(r, FALSE, fault)

\* the operations that change the adapter or the plugin
Mutators ==
    \/ \E path \in Paths : Load(path)
    \/ Close
    \/ \E input \in Samples : Tick(input)
    \/ \E bypass \in BOOLEAN : SetBypass(bypass)
    \/ \E index \in Indices, value \in SetValues : SetParam(index, value)
    \/ \E name \in Names, value \in SetValues : SetParamByName(name, value)
    \/ \E status \in Statuses, data1 \in Pitches, data2 \in Velocities :
           SendMIDI(status, data1, data2)
    \/ \E pitch \in Pitches, velocity \in Velocities : NoteOn(pitch, velocity)
    \/ \E pitch \in Pitches : NoteOff(pitch)

\* the operations that only read
Queries ==
    \/ \E index \in Indices : GetParam(index)
    \/ \E name \in Names : GetParamByName(name)
    \/ \E index \in Indices : GetParamName(index)
    \/ GetParamCount
    \/ IsInstrument
    \/ GetPresetCount
    \/ \E index \in Indices : GetPresetName(index)
    \/ \E index \in Indices : LoadPreset(index)
    \/ \E name \in PresetNames : LoadPresetByName(name)

Next == Mutators \/ Queries \/ Destroy

\* loading with a failure at every step of load
NextLoad ==
    \/ \E path \in LoadPaths : Load(path)
    \/ Close
    \/ \E input \in Samples : Tick(input)
    \/ \E bypass \in BOOLEAN : SetBypass(bypass)
    \/ \E index \in Indices, value \in SetValues : SetParam(index, value)
    \/ \E pitch \in Pitches, velocity \in Velocities : NoteOn(pitch, velocity)
    \/ \E index \in Indices : LoadPreset(index)

\* the adapter hosting the reference plugin
NextRef ==
    \/ \E path \in RefPaths : Load(path)
    \/ Close
    \/ \E input \in Samples : Tick(input)
    \/ \E bypass \in BOOLEAN : SetBypass(bypass)
    \/ \E index \in Indices, value \in RefValues : SetParam(index, value)
    \/ \E name \in RefNames, value \in RefValues : SetParamByName(name, value)
    \/ \E index \in Indices : GetParam(index)
    \/ \E name \in RefNames : GetParamByName(name)

\* the parameter and preset operations between loads and closes
NextQ ==
    \/ \E path \in Paths : Load(path)
    \/ Close
    \/ \E input \in Samples : Tick(input)
    \/ \E index \in Indices, value \in SetValues : SetParam(index, value)
    \/ \E name \in Names, value \in SetValues : SetParamByName(name, value)
    \/ Queries

\* MIDI messages sent to a loaded instrument
NextMidi ==
    \/ Load(Path("syn", "none"))
    \/ \E input \in Samples : Tick(input)
    \/ \E status \in Statuses, data1 \in MidiKeys, data2 \in MidiData :
           SendMIDI(status, data1, data2)
    \/ \E pitch \in MidiKeys, velocity \in MidiData : NoteOn(pitch, velocity)
    \/ \E pitch \in MidiKeys : NoteOff(pitch)

\* loading modules whose preset discovery differs
NextDisc ==
    \/ \E path \in DiscPaths : Load(path)
    \/ Close
    \/ GetPresetCount
    \/ \E index \in Indices : GetPresetName(index)

\* the lifetimes of what load() acquires, up to the adapter's destruction
NextLife ==
    \/ \E path \in LoadPaths : Load(path)
    \/ Close
    \/ Destroy

\* notes played on the reference plugin
NextVoices ==
    \/ Load(Path("ref", "none"))
    \/ \E input \in Samples : Tick(input)
    \/ \E pitch \in VoicePitches, velocity \in Velocities : NoteOn(pitch, velocity)
    \/ \E pitch \in VoicePitches : NoteOff(pitch)
    \/ \E status \in VoiceStatuses, data1 \in VoicePitches, data2 \in Velocities :
           SendMIDI(status, data1, data2)

\* parameter events across sessions of two plugins with different parameter ids
NextIds ==
    \/ \E path \in {Path("fx", "none"), Path("ref", "none")} : Load(path)
    \/ Close
    \/ \E input \in Samples : Tick(input)
    \/ \E index \in Indices, value \in SetValues : SetParam(index, value)

\* the setters running beside a tick, with no lock between them
NextConc ==
    \/ \E path \in {Path("fx", "none"), Path("syn", "none")} : Load(path)
    \/ \E input \in Samples : TickProcess(input)
    \/ TickReturn
    \/ \E index \in Indices, value \in SetValues : SetParam(index, value)
    \/ \E pitch \in Pitches, velocity \in Velocities : NoteOn(pitch, velocity)

Spec == Init /\ [][Next]_vars
SpecM == Init /\ [][Mutators]_vars
SpecLoad == Init /\ [][NextLoad]_vars
SpecRef == Init /\ [][NextRef]_vars
SpecQ == Init /\ [][NextQ]_vars
SpecMidi == Init /\ [][NextMidi]_vars
SpecDisc == Init /\ [][NextDisc]_vars
SpecLife == Init /\ [][NextLife]_vars
SpecVoices == Init /\ [][NextVoices]_vars
SpecIds == Init /\ [][NextIds]_vars
SpecConc == Init /\ [][NextConc]_vars

\* ------------------------------------------------------------- claims

\* C1: once load() has returned false, whatever the step that failed, the
\* adapter is Unloaded: no plugin instance, no module handle, no entry table,
\* activated and processing false, no cached parameter and no cached preset.
C1_FailedLoadLeavesUnloaded ==
    (lastOp.op = "load" /\ ~crashed /\ ret = FALSE) =>
        /\ ~m_plugin /\ ~m_library /\ ~m_entry
        /\ ~m_activated /\ ~m_processing
        /\ Len(m_parameters) = 0
        /\ Len(m_presets) = 0

\* C2: a tick taken while bypass is enabled returns its input sample, with
\* or without a plugin and whatever the pending-event queue holds.
C2_BypassedTickIsIdentity ==
    [][(m_bypass /\ lastOp'.op = "tick") => (~crashed' /\ ret' = lastOp'.a)]_vars

\* a bypassed tick on a loaded, processing plugin with an event pending
C2_Witness ==
    /\ lastOp.op = "tick" /\ lastOp.a = 1 /\ ret = 1
    /\ m_bypass /\ m_plugin /\ m_processing
    /\ Len(m_eventQueue) > 0

\* C3: a tick taken with no plugin instance or outside the Processing state
\* returns its input sample and makes no call into any plugin.
C3_UnloadedTickIsIdentity ==
    [][((~m_plugin \/ ~m_processing) /\ lastOp'.op = "tick")
          => (~crashed' /\ ret' = lastOp'.a /\ calls' = << >>)]_vars

\* a tick with bypass off after a load that failed and left its parameters cached
C3_Witness ==
    /\ lastOp.op = "tick" /\ lastOp.a = 1 /\ ret = 1
    /\ ~m_plugin /\ ~m_bypass
    /\ Len(m_parameters) > 0

\* the value the loaded reference plugin reports for its parameter
RefVolume(d) == ParamsGetValue("ref", d, P_VOLUME)[2]

\* C4: with the reference plugin loaded, processing and not bypassed,
\* setParam(0, v) leaves the value getParam(0) reports unchanged, getParam(0)
\* reports the plugin's current value, and the tick that follows setParam(0, v)
\* makes getParam(0) report v.
C4_ParamAppliedByOneTick ==
    [][(mapped.base = "ref" /\ m_plugin /\ m_processing /\ ~m_bypass) =>
          /\ (lastOp'.op = "setParam" /\ lastOp'.a = 0) =>
                 (ret' = TRUE /\ RefVolume(pdata') = RefVolume(pdata))
          /\ (lastOp'.op = "getParam" /\ lastOp'.a = 0) =>
                 (ret' = RefVolume(pdata) /\ pdata' = pdata)
          /\ (lastOp'.op = "tick" /\ Len(m_eventQueue) = 1
                 /\ m_eventQueue[1].type = CLAP_EVENT_PARAM_VALUE
                 /\ m_eventQueue[1].param_id = 0) =>
                 (~crashed' /\ RefVolume(pdata') = m_eventQueue[1].value)]_vars

\* whether a cached parameter has the name
C5_Matches(name) == \E i \in 1..Len(m_parameters) : m_parameters[i].name = name

\* C5: setParamByName with a name no cached parameter has returns false,
\* queues nothing and changes no parameter value; getParamByName with such a
\* name returns 0.0 and found = false; with a name a cached parameter has,
\* getParamByName sets found = true whatever the value.
C5_ByNameLookup ==
    [][/\ (lastOp'.op = "setParamByName" /\ ~C5_Matches(lastOp'.name)) =>
             /\ ret' = FALSE /\ ~crashed'
             /\ m_eventQueue' = m_eventQueue /\ pdata' = pdata /\ calls' = << >>
       /\ (lastOp'.op = "getParamByName" /\ ~C5_Matches(lastOp'.name)) =>
             /\ ret' = [value |-> 0, found |-> FALSE] /\ ~crashed'
             /\ m_eventQueue' = m_eventQueue /\ pdata' = pdata /\ calls' = << >>
       /\ (lastOp'.op = "getParamByName" /\ C5_Matches(lastOp'.name) /\ ~crashed') =>
             ret'.found = TRUE]_vars

\* getParamByName found a parameter whose value is 0.0, in a loaded plugin
C5_Witness ==
    /\ ~crashed /\ lastOp.op = "getParamByName" /\ lastOp.name = "Gain"
    /\ ret = [value |-> 0, found |-> TRUE]
    /\ m_plugin /\ m_processing

\* C6: while the loaded plugin's descriptor carries neither the instrument nor
\* the synthesizer feature tag, sendMIDI, noteOn and noteOff return false and
\* leave the pending-event queue as it was.
C6_NonInstrumentRejectsMIDI ==
    [][(/\ m_plugin
        /\ CLAP_PLUGIN_FEATURE_INSTRUMENT \notin Features(mapped.base)
        /\ CLAP_PLUGIN_FEATURE_SYNTHESIZER \notin Features(mapped.base)
        /\ lastOp'.op \in {"sendMIDI", "noteOn", "noteOff"})
          => (ret' = FALSE /\ m_eventQueue' = m_eventQueue /\ ~crashed')]_vars

\* a note-on status sent to a loaded, processing effect plugin
C6_Witness ==
    /\ lastOp.op = "sendMIDI" /\ lastOp.a = 144 /\ ret = FALSE
    /\ m_plugin /\ m_processing /\ mapped.base = "fx"

\* what provider p of module b reports while the locations locs are crawled
RECURSIVE C7_Reported(_, _, _)
C7_Reported(b, p, locs) ==
    IF locs = << >> THEN << >>
    ELSE Metadata(b, p, Head(locs)) \o C7_Reported(b, p, Tail(locs))

C7_Names(reported) == {reported[k][1] : k \in 1..Len(reported)}

C8_CloseInAnyState ==
    [][lastOp'.op = "close" =>
          /\ ~crashed' /\ ~ub'
          /\ Len(m_parameters') = 0 /\ Len(m_presets') = 0
          /\ ((~m_plugin /\ ~m_library /\ ~m_entry) \/ lastOp.op = "close") =>
                 /\ calls' = << >>
                 /\ m_presetDiscoveryProvider' = m_presetDiscoveryProvider
                 /\ m_eventQueue' = m_eventQueue]_vars

\* C9: activated implies a plugin instance, and processing implies activated.
C9_FlagsOrdered ==
    /\ m_activated => m_plugin
    /\ m_processing => m_activated

\* a load whose start_processing failed has deactivated and destroyed the instance
C9_Witness ==
    /\ lastOp.op = "load" /\ ~crashed /\ ret = FALSE
    /\ \E k \in 1..(Len(calls) - 1) :
           /\ calls[k].fn = "plugin.start_processing"
           /\ calls[k + 1].fn = "plugin.deactivate"
    /\ ~m_activated /\ ~m_plugin

\* C10: after close() followed by a successful load() the pending-event
\* queue is empty.
C10_NoCarryover ==
    [][(lastOp.op = "close" /\ lastOp'.op = "load" /\ ~crashed' /\ ret' = TRUE)
          => m_eventQueue' = << >>]_vars

\* the calls of lines 298-328 among the calls the last operation made
C11_TeardownCalls ==
    SelectSeq(calls, LAMBDA c : c.fn \in {"plugin.stop_processing", "plugin.deactivate",
                                          "plugin.destroy", "entry.deinit", "dlclose"})

\* the teardown the flags of the current state ask for
C11_Expected ==
    (IF m_processing THEN <<"plugin.stop_processing">> ELSE << >>)
    \o (IF m_activated THEN <<"plugin.deactivate">> ELSE << >>)
    \o <<"plugin.destroy", "entry.deinit", "dlclose">>

\* C11: close() on an adapter that holds a plugin instance calls, in this
\* order and each once, stop_processing (only if processing), deactivate (only
\* if activated), the instance's destroy, the entry's deinit and the module
\* unload; each call into the module is made while the module is still mapped.
C11_CloseOrder ==
    [][(m_plugin /\ lastOp'.op = "close") =>
          /\ [k \in 1..Len(C11_TeardownCalls') |-> C11_TeardownCalls'[k].fn] = C11_Expected
          /\ \A k \in 1..Len(C11_TeardownCalls') : C11_TeardownCalls'[k].live]_vars

\* close() has torn down an instance that was processing
C11_Witness ==
    /\ lastOp.op = "close"
    /\ Len(calls) >= 5
    /\ calls[1].fn = "plugin.stop_processing" /\ calls[5].fn = "dlclose"
    /\ ~m_plugin /\ ~m_library

\* call j is the entry's deinit of the module that call k unloads
C12_DeinitOf(j, k) ==
    /\ calls[j].fn = "entry.deinit"
    /\ \A i \in (j + 1)..(k - 1) : calls[i].fn # "dlopen"

\* C12 (as claimed): every unload of a module, in close() or on a failure
\* exit of load(), comes after a call of that module's entry deinit().
C12_DeinitBeforeEveryUnload ==
    \A k \in 1..Len(calls) :
        calls[k].fn = "dlclose" => \E j \in 1..(k - 1) : C12_DeinitOf(j, k)

\* C12 (amended): an unload directly follows the entry's deinit(), except on
\* the two exits of load() taken before the entry is initialised: when the
\* entry symbol is not found the unload directly follows the lookup, and when
\* the entry's init() fails it directly follows init(); neither calls deinit().
C12_DeinitBeforeUnloadOnceInitialised ==
    \A k \in 1..Len(calls) :
        calls[k].fn = "dlclose" =>
            /\ k > 1
            /\ IF lastOp.op = "load" /\ lastOp.a = "sym" /\ k = Len(calls)
               THEN calls[k - 1].fn = "dlsym"
               ELSE IF lastOp.op = "load" /\ lastOp.a = "entry_init" /\ k = Len(calls)
               THEN calls[k - 1].fn = "entry.init"
               ELSE calls[k - 1].fn = "entry.deinit" /\ calls[k - 1].live

\* a load() that found no plugin factory has called deinit() and then unloaded
C12_Witness ==
    /\ lastOp.op = "load" /\ lastOp.a = "factory"
    /\ Len(calls) >= 2
    /\ calls[Len(calls)].fn = "dlclose"
    /\ calls[Len(calls) - 1].fn = "entry.deinit"

\* C13: when load() has returned false, every completed step has been undone:
\* a discovery provider that was created has been destroyed before the module
\* was unloaded, an instance that was created has been destroyed before the
\* entry's deinit(), and the adapter keeps no pointer to the instance, its
\* extensions, the provider, the factories, the entry or the module.
C13_FailedLoadUndoesEveryStep ==
    (lastOp.op = "load" /\ ~crashed /\ ret = FALSE) =>
        /\ ~m_plugin /\ ~m_entry /\ ~m_library /\ ~m_activated
        /\ ~m_params /\ ~m_audioPortsExt /\ ~m_notePortsExt /\ ~m_presetLoad
        /\ m_presetDiscoveryProvider = 0 /\ ~m_presetDiscoveryFactory
        /\ \A k \in 1..Len(calls) :
               calls[k].fn = "plugin.init" =>
                   \E i \in (k + 1)..Len(calls), j \in (k + 1)..Len(calls) :
                       /\ i < j
                       /\ calls[i].fn = "plugin.destroy"
                       /\ calls[j].fn = "entry.deinit"

\* C14: setParam(index, value) fails and leaves the pending queue as it was
\* when the adapter holds no parameter extension or the index is outside the
\* cached parameter list; otherwise it succeeds and the queue grows by one
\* event at its end: a parameter-value event with time 0, the cached id of
\* that index, the given value, and note id, port, channel and key all -1.
C14_SetParamQueuesOneEvent ==
    [][lastOp'.op = "setParam" =>
          /\ ~crashed'
          /\ IF ~m_params \/ lastOp'.a < 0 \/ lastOp'.a >= Len(m_parameters)
             THEN ret' = FALSE /\ m_eventQueue' = m_eventQueue
             ELSE /\ ret' = TRUE
                  /\ Len(m_eventQueue') = Len(m_eventQueue) + 1
                  /\ SubSeq(m_eventQueue', 1, Len(m_eventQueue)) = m_eventQueue
                  /\ LET e == m_eventQueue'[Len(m_eventQueue')]
                     IN  /\ e.type = CLAP_EVENT_PARAM_VALUE
                         /\ e.time = 0
                         /\ e.param_id = m_parameters[lastOp'.a + 1].id
                         /\ e.value = lastOp'.b
                         /\ e.note_id = -1 /\ e.port_index = -1
                         /\ e.channel = -1 /\ e.key = -1]_vars

\* setParam(0, v) has queued an event for the parameter whose id is 1
C14_Witness ==
    /\ lastOp.op = "setParam" /\ lastOp.a = 0 /\ ~crashed /\ ret = TRUE
    /\ m_plugin /\ m_processing
    /\ Len(m_eventQueue) > 0
    /\ m_eventQueue[Len(m_eventQueue)].param_id = 1
    /\ m_eventQueue[Len(m_eventQueue)].value = lastOp.b

\* a tick from the current state calls process
C15_ProcessingTick == m_plugin /\ m_processing /\ ~m_bypass

\* the operations that can queue an event
C15_Setters == {"setParam", "setParamByName", "sendMIDI", "noteOn", "noteOff"}

\* C15: with the operations serialized, a tick that calls process makes one
\* process call whose input-event list is the pending queue as it stood, in
\* enqueue order and of the queue's length, and leaves the queue empty; every
\* other operation makes no process call and keeps the queued events, in
\* order, adding at most one at the end and only when a setter returns true.
\* So each accepted event is exposed to the process call of the next
\* processing tick and to no other.
C15_EventsExposedOnce ==
    [][IF lastOp'.op = "tick" /\ C15_ProcessingTick
       THEN /\ Len(calls') = 1
            /\ calls'[1].fn = "plugin.process"
            /\ calls'[1].events = m_eventQueue
            /\ ~crashed' => m_eventQueue' = << >>
       ELSE /\ \A k \in 1..Len(calls') : calls'[k].fn # "plugin.process"
            /\ ~crashed' =>
                  \/ m_eventQueue' = m_eventQueue
                  \/ /\ Len(m_eventQueue') = Len(m_eventQueue) + 1
                     /\ SubSeq(m_eventQueue', 1, Len(m_eventQueue)) = m_eventQueue
                     /\ lastOp'.op \in C15_Setters
                     /\ ret' = TRUE]_vars

\* a processing tick has exposed a note-on and then a note-off, queued in
\* this order, and emptied the queue
C15_Witness ==
    /\ lastOp.op = "tick" /\ ~crashed
    /\ Len(calls) = 1 /\ calls[1].fn = "plugin.process"
    /\ Len(calls[1].events) = 2
    /\ calls[1].events[1].type = CLAP_EVENT_NOTE_ON
    /\ calls[1].events[2].type = CLAP_EVENT_NOTE_OFF
    /\ m_eventQueue = << >>

\* the last operation was a tick whose process call returned the error status
C16_ErrorTick ==
    /\ lastOp.op = "tick" /\ ~crashed
    /\ Len(calls) = 1 /\ calls[1].fn = "plugin.process"
    /\ calls[1].res = CLAP_PROCESS_ERROR

\* C16: a tick whose process call returns the error status returns 0 when the
\* plugin is an instrument and the input sample otherwise, and leaves the
\* instance, its activation, the processing flag and the bypass switch as
\* they were; a tick that follows it calls process again.
C16_ErrorKeepsProcessing ==
    [][/\ C16_ErrorTick' =>
             /\ ret' = IF m_isInstrument THEN 0 ELSE lastOp'.a
             /\ m_plugin' /\ m_library' /\ m_entry' /\ m_activated' /\ m_processing'
             /\ m_bypass' = m_bypass /\ m_isInstrument' = m_isInstrument
       /\ (C16_ErrorTick /\ lastOp'.op = "tick") =>
             /\ Len(calls') = 1
             /\ calls'[1].fn = "plugin.process"]_vars

\* the second process call of an instrument has returned the error status,
\* the input sample was 1 and tick returned 0
C16_Witness ==
    /\ C16_ErrorTick
    /\ m_isInstrument /\ lastOp.a = 1 /\ ret = 0
    /\ steady_time = 2 /\ errorLogged
    /\ m_plugin /\ m_processing

\* the pending queue has grown by one note event of this type, channel, key
\* and velocity (in 127ths, so that [0,1] is 0..127), with time 0
C17_Queued(type, channel, key, velocity) ==
    /\ Len(m_eventQueue') = Len(m_eventQueue) + 1
    /\ SubSeq(m_eventQueue', 1, Len(m_eventQueue)) = m_eventQueue
    /\ LET e == m_eventQueue'[Len(m_eventQueue')]
       IN  /\ e.type = type /\ e.time = 0
           /\ e.channel = channel /\ e.key = key
           /\ e.velocity = velocity /\ e.velocity \in 0..127

\* C17: with an instrument loaded and processing, sendMIDI with a note-on
\* (0x90) or note-off (0x80) status returns true and queues one note-on or
\* note-off event with time 0, channel = the status's low nibble, key = data1
\* and velocity = data2/127 within [0,1]; noteOn(p, v) queues what
\* sendMIDI(0x90, p, v) queues and noteOff(p) what sendMIDI(0x80, p, 0) queues.
C17_NoteMessagesQueueNoteEvents ==
    [][(m_plugin /\ m_processing /\ m_isInstrument /\ ~crashed') =>
          /\ (lastOp'.op = "sendMIDI" /\ lastOp'.a - (lastOp'.a % 16) = 144) =>
                 /\ ret' = TRUE
                 /\ C17_Queued(CLAP_EVENT_NOTE_ON, lastOp'.a % 16, lastOp'.b, lastOp'.c)
          /\ (lastOp'.op = "sendMIDI" /\ lastOp'.a - (lastOp'.a % 16) = 128) =>
                 /\ ret' = TRUE
                 /\ C17_Queued(CLAP_EVENT_NOTE_OFF, lastOp'.a % 16, lastOp'.b, lastOp'.c)
          /\ lastOp'.op = "noteOn" =>
                 /\ ret' = TRUE
                 /\ C17_Queued(CLAP_EVENT_NOTE_ON, 0, lastOp'.a, lastOp'.b)
          /\ lastOp'.op = "noteOff" =>
                 /\ ret' = TRUE
                 /\ C17_Queued(CLAP_EVENT_NOTE_OFF, 0, lastOp'.a, 0)]_vars

\* C18: with an instrument loaded and processing, sendMIDI returns true for a
\* control-change (0xB0) or program-change (0xC0) status and false for a
\* status whose high nibble is none of 0x80, 0x90, 0xB0, 0xC0; either way the
\* pending queue stays as it was.
C18_OtherMessagesQueueNothing ==
    [][(lastOp'.op = "sendMIDI" /\ m_plugin /\ m_processing /\ m_isInstrument
           /\ lastOp'.a - (lastOp'.a % 16) \notin {128, 144}) =>
          /\ ~crashed'
          /\ ret' = (lastOp'.a - (lastOp'.a % 16) \in {176, 192})
          /\ m_eventQueue' = m_eventQueue]_vars

\* a control change was accepted while a note event was pending
C18_Witness ==
    /\ lastOp.op = "sendMIDI" /\ lastOp.a = 176 /\ ~crashed /\ ret = TRUE
    /\ m_plugin /\ m_processing /\ m_isInstrument
    /\ Len(m_eventQueue) = 1

\* the adapter's fields
C19_Fields ==
    <<m_plugin, m_library, m_entry, m_bypass, m_isInstrument, m_activated,
      m_processing, m_params, m_audioPortsExt, m_notePortsExt, m_presetLoad,
      m_presetDiscoveryFactory, m_presetDiscoveryProvider, m_eventQueue,
      m_parameters, m_presets, m_discoveryLocations, m_currentPresetLocation,
      steady_time>>

\* the index is not one of a sequence counted from 0
C19_Unknown(index, seq) == index < 0 \/ index >= Len(seq)

\* C19: in every state, getParam, paramName, presetName and loadPreset called
\* with nothing loaded, without the capability they need, or with an index
\* that is not cached return 0.0, "", "" and false, make no call into a
\* plugin or module and leave every field of the adapter as it was.
C19_QueriesFailSafe ==
    [][LET index == lastOp'.a
           safe(default) == /\ ~crashed'
                            /\ ret' = default
                            /\ calls' = << >>
                            /\ C19_Fields' = C19_Fields
       IN  /\ (lastOp'.op = "getParam"
                  /\ (~m_plugin \/ ~m_params \/ C19_Unknown(index, m_parameters)))
                 => safe(0)
           /\ (lastOp'.op = "paramName"
                  /\ (~m_plugin \/ C19_Unknown(index, m_parameters)))
                 => safe("")
           /\ (lastOp'.op = "presetName"
                  /\ (~m_plugin \/ C19_Unknown(index, m_presets)))
                 => safe("")
           /\ (lastOp'.op = "loadPreset"
                  /\ (~m_plugin \/ ~m_presetLoad \/ C19_Unknown(index, m_presets)))
                 => safe(FALSE)]_vars

\* C20: load() returns true exactly when none of its lifecycle steps fails,
\* whatever preset discovery met: a module without discovery factory, or whose
\* providers all fail to be created or initialised, loads with no provider
\* and an empty preset list, and a location for which the metadata query
\* reports nothing contributes no preset while the other locations do.
C20_LoadIndependentOfDiscovery ==
    [][(lastOp'.op = "load" /\ ~crashed') =>
          /\ ret' = (lastOp'.a = "none")
          /\ ret' =>
                /\ lastOp'.name \in {"ref", "nop"} =>
                       m_presetDiscoveryProvider' = 0 /\ m_presets' = << >>
                /\ \A k \in 1..Len(m_presets') : m_presets'[k].location \notin {"R", "N"}]_vars

\* a load has succeeded although the metadata query for the declared location
\* R reported nothing; the preset list holds the presets of the location B
C20_Witness ==
    /\ lastOp.op = "load" /\ lastOp.name = "syn" /\ ~crashed /\ ret = TRUE
    /\ \E k \in 1..Len(m_discoveryLocations) : m_discoveryLocations[k].location = "R"
    /\ \E k \in 1..Len(m_presets) : m_presets[k].location = "B"
    /\ \A k \in 1..Len(m_presets) : m_presets[k].location # "R"
    /\ m_plugin /\ m_processing

\* the operation made one load-from-location call for the cached preset k
\* (counted from 1) and returned what the call answered
C21_Forwarded(k) ==
    /\ ~crashed'
    /\ Len(calls') = 1
    /\ calls'[1].fn = "preset_load.from_location" /\ calls'[1].live
    /\ calls'[1].args.location = m_presets[k].location
    /\ calls'[1].args.location_kind = m_presets[k].location_kind
    /\ calls'[1].args.load_key =
           IF m_presets[k].load_key = "" THEN NULL ELSE m_presets[k].load_key
    /\ ret' = calls'[1].res

\* the operation returned false and called nothing
C21_Refused == ~crashed' /\ ret' = FALSE /\ calls' = << >>

\* the cached presets named name, counted from 1
C21_Named(name) == {k \in 1..Len(m_presets) : m_presets[k].name = name}

\* C21: on a loaded plugin with the preset-load extension, loadPreset(index)
\* with a cached index makes exactly one load-from-location call with that
\* preset's cached location, location kind and load key (null for a preset
\* cached without key) and returns its result, and loadPresetByName(name) does
\* so for the first cached preset of that name; without the extension both
\* return false and call nothing.
C21_PresetLoadForwarded ==
    [][/\ (lastOp'.op = "loadPreset" /\ m_plugin /\ m_presetLoad
             /\ lastOp'.a \in 0..(Len(m_presets) - 1))
            => C21_Forwarded(lastOp'.a + 1)
       /\ (lastOp'.op = "loadPresetByName" /\ m_plugin /\ m_presetLoad
             /\ C21_Named(lastOp'.name) # {})
            => \E k \in C21_Named(lastOp'.name) :
                   /\ \A j \in C21_Named(lastOp'.name) : k <= j
                   /\ C21_Forwarded(k)
       /\ (lastOp'.op \in {"loadPreset", "loadPresetByName"} /\ ~m_presetLoad)
            => C21_Refused]_vars

\* loadPresetByName("q") has passed the key of the first of two presets named
\* q and returned the plugin's refusal
C21_Witness ==
    /\ lastOp.op = "loadPresetByName" /\ lastOp.name = "q" /\ ~crashed /\ ret = FALSE
    /\ m_plugin /\ m_presetLoad
    /\ Len(calls) = 1 /\ calls[1].args.load_key = "k"
    /\ Cardinality({k \in 1..Len(m_presets) : m_presets[k].name = "q"}) = 2

\* the step makes no process call
C22_NoProcessCall == \A k \in 1..Len(calls') : calls'[k].fn # "plugin.process"

\* C22: nothing orders a setter and a tick.  A process call sees the queue as
\* it stands when the call is made; an event a setter appends after that call
\* and before the tick clears the queue is behind the events the call saw, is
\* removed by the clear, and no process call is made in between, so it is
\* never delivered.  When no setter runs inside the tick, the clear removes
\* exactly the events the process call saw.
C22_UnlockedQueue ==
    [][/\ (ticking = NotTicking /\ ticking' # NotTicking) =>
             /\ Len(calls') = 1 /\ calls'[1].fn = "plugin.process"
             /\ calls'[1].events = m_eventQueue
             /\ ticking'.exposed = m_eventQueue
             /\ m_eventQueue' = m_eventQueue
       /\ (ticking # NotTicking /\ ticking' # NotTicking) =>
             /\ C22_NoProcessCall
             /\ ticking' = ticking
             /\ SubSeq(m_eventQueue', 1, Len(ticking.exposed)) = ticking.exposed
             /\ SubSeq(m_eventQueue', 1, Len(m_eventQueue)) = m_eventQueue
       /\ (ticking # NotTicking /\ ticking' = NotTicking /\ ~crashed') =>
             /\ C22_NoProcessCall
             /\ m_eventQueue' = << >>
             /\ (lastOp.op = "tick") => m_eventQueue = ticking.exposed]_vars

\* a tick has returned from its process call, which saw an empty list, and
\* has not yet cleared the queue; setParam has since appended an event
C22_Witness ==
    /\ ticking # NotTicking /\ ~crashed
    /\ lastOp.op = "setParam" /\ ret = TRUE /\ ub
    /\ ticking.exposed = << >>
    /\ Len(m_eventQueue) = 1

\* the process calls among the calls of the last operation
C23_ProcessCalls == SelectSeq(calls, LAMBDA c : c.fn = "plugin.process")

\* C23: the steady-time counter is 0 after construction; every operation
\* adds to it the number of process calls it made, which is one for a tick
\* that calls process, whatever status process returns, and none otherwise;
\* each process call is passed the counter's value before the operation.  So
\* the counter never decreases and the steady time passed to a process call
\* is the number of process calls made before it.
C23_SteadyTimeCountsProcessCalls ==
    /\ lastOp.op = "ctor" => steady_time = 0
    /\ [][~crashed' =>
             /\ steady_time' = steady_time + Len(C23_ProcessCalls')
             /\ Len(C23_ProcessCalls') \in {0, 1}
             /\ Len(C23_ProcessCalls') = 1 =>
                    /\ lastOp'.op = "tick"
                    /\ C23_ProcessCalls'[1].args.steady_time = steady_time]_vars

\* the second process call was passed steady time 1 and returned the error
\* status; the counter is 2
C23_Witness ==
    /\ lastOp.op = "tick" /\ ~crashed
    /\ Len(calls) = 1 /\ calls[1].fn = "plugin.process"
    /\ calls[1].res = CLAP_PROCESS_ERROR
    /\ calls[1].args.steady_time = 1
    /\ steady_time = 2

\* C24: the processing-error diagnostic is written only by a step that finds
\* the flag unset and sets it, at most once by that step, and the flag, once
\* set, stays set through every tick, load and close; so the diagnostic is
\* written at most once however many process calls return the error status.
C24_ErrorLoggedOnce ==
    [][/\ stderr' # << >> =>
             /\ stderr' = <<"[CLAP]: Processing error">>
             /\ ~errorLogged
             /\ crashed' \/ errorLogged'
       /\ errorLogged => (crashed' \/ errorLogged')]_vars

\* a second process call has returned the error status and nothing was
\* written
C24_Witness ==
    /\ lastOp.op = "tick" /\ ~crashed
    /\ Len(calls) = 1 /\ calls[1].fn = "plugin.process"
    /\ calls[1].res = CLAP_PROCESS_ERROR
    /\ calls[1].args.steady_time = 1
    /\ errorLogged /\ stderr = << >>

\* the provider calls of a call sequence that follow the factory's count call
C25_Tried(cs) ==
    LET counted == {k \in 1..Len(cs) : cs[k].fn = "discovery.count"}
    IN  IF counted = {} THEN << >>
        ELSE SelectSeq(SubSeq(cs, (CHOOSE k \in counted : TRUE) + 1, Len(cs)),
                       LAMBDA c : c.fn \in {"discovery.get_descriptor", "discovery.create",
                                            "provider.init", "provider.destroy"})

\* the call sequence d tries the providers as the claim says and leaves the
\* provider `kept`
C25_InOrder(d, kept) ==
    /\ \A k \in 1..Len(d) :
          LET c == d[k]
          IN  /\ c.fn = "discovery.get_descriptor" =>
                    /\ c.args.index =
                           Cardinality({j \in 1..(k - 1) : d[j].fn = "discovery.get_descriptor"})
                    /\ k > 1 => \/ d[k-1].fn = "discovery.get_descriptor" /\ ~d[k-1].res
                                \/ d[k-1].fn = "discovery.create" /\ d[k-1].res = 0
                                \/ d[k-1].fn = "provider.destroy"
              /\ c.fn = "discovery.create" =>
                    /\ k > 1 /\ d[k-1].fn = "discovery.get_descriptor"
                    /\ d[k-1].res /\ d[k-1].args.index = c.args.index
                    /\ c.res \in {0, c.args.index + 1}
              /\ c.fn = "provider.init" =>
                    /\ k > 1 /\ d[k-1].fn = "discovery.create"
                    /\ d[k-1].res = c.args.provider /\ c.args.provider # 0
                    /\ IF c.res
                       THEN k = Len(d) /\ kept = c.args.provider
                       ELSE /\ k < Len(d) /\ d[k+1].fn = "provider.destroy"
                            /\ d[k+1].args.provider = c.args.provider
              /\ c.fn = "provider.destroy" =>
                    /\ k > 1 /\ d[k-1].fn = "provider.init" /\ ~d[k-1].res
                    /\ d[k-1].args.provider = c.args.provider
    /\ (\A k \in 1..Len(d) : ~(d[k].fn = "provider.init" /\ d[k].res)) => kept = 0

\* C25: a load() that reaches preset discovery asks for the providers in
\* factory index order, creates each described one, destroys at once a
\* created provider whose init fails, stops at the first whose init succeeds
\* and keeps it, and creates none after it; it ends holding that provider or
\* none.
C25_FirstProviderKept ==
    [][(lastOp'.op = "load" /\ ~crashed') =>
          /\ C25_InOrder(C25_Tried(calls'), m_presetDiscoveryProvider')
          /\ m_presetDiscoveryProvider' \in 0..Len(Providers(lastOp'.name))]_vars

\* a load has kept the fourth provider of its factory after it destroyed the
\* second, whose init failed; the fifth was never asked for
C25_Witness ==
    /\ lastOp.op = "load" /\ lastOp.name = "syn" /\ ~crashed /\ ret = TRUE
    /\ m_presetDiscoveryProvider = 4
    /\ \E k \in 1..Len(calls) :
          calls[k].fn = "provider.destroy" /\ calls[k].live /\ calls[k].args.provider = 2
    /\ \A k \in 1..Len(calls) :
          calls[k].fn = "discovery.get_descriptor" => calls[k].args.index < 4

\* the presets the provider p of module b reports for the locations locs, in
\* the order of the begin-preset callbacks, each with the location crawled
RECURSIVE C26_Arrivals(_, _, _)
C26_Arrivals(b, p, locs) ==
    IF locs = << >> THEN << >>
    ELSE LET reported == Metadata(b, p, Head(locs))
         IN  [k \in 1..Len(reported) |->
                 [name          |-> reported[k][1],
                  load_key      |-> IF reported[k][2] = NULL THEN "" ELSE reported[k][2],
                  location      |-> Head(locs).location,
                  location_kind |-> Head(locs).kind]]
             \o C26_Arrivals(b, p, Tail(locs))

\* C26: in every state each cached preset carries the location and the kind
\* of an entry of the declared-location list; and after a load() that crawled,
\* the preset list is the sequence of the begin-preset callbacks in arrival
\* order, each with the location that was being crawled.
C26_PresetsCarryCrawledLocation ==
    /\ [](\A k \in 1..Len(m_presets) :
             \E j \in 1..Len(m_discoveryLocations) :
                /\ m_presets[k].location = m_discoveryLocations[j].location
                /\ m_presets[k].location_kind = m_discoveryLocations[j].kind)
    /\ [][(lastOp'.op = "load" /\ ~crashed') =>
             m_presets' = IF m_presetDiscoveryProvider' = 0 THEN << >>
                          ELSE C26_Arrivals(lastOp'.name, m_presetDiscoveryProvider',
                                            m_discoveryLocations')]_vars

\* presets of two declared locations are cached, those of the first before
\* those of the second, each with its own kind
C26_Witness ==
    /\ ~crashed /\ Len(m_presets) = 3 /\ Len(m_discoveryLocations) = 3
    /\ m_presets[1].location = "X" /\ m_presets[1].location_kind = 1
    /\ m_presets[2].location = "B" /\ m_presets[2].location_kind = 0
    /\ m_presets[3].location = "B" /\ m_presets[3].load_key = "k"
    /\ m_discoveryLocations[1].location = "X" /\ m_discoveryLocations[2].location = "B"

\* C27: load() asks for descriptor 0 and instantiates it, and isInstrument()
\* answers true exactly when a plugin is loaded whose feature tags include
\* the instrument or the synthesizer tag, so false when no plugin is loaded.
C27_InstrumentOnlyWhenLoaded ==
    [][/\ (lastOp'.op = "load" /\ ~crashed') =>
             \A k \in 1..Len(calls') :
                /\ calls'[k].fn = "factory.get_plugin_descriptor" =>
                       calls'[k].args.index = 0
                /\ calls'[k].fn = "factory.create_plugin" =>
                       calls'[k].args.descriptor = 0
       /\ (lastOp'.op = "isInstrument" /\ ~crashed') =>
             ret' = (/\ m_plugin
                     /\ \E f \in Features(mapped.base) :
                           f \in {CLAP_PLUGIN_FEATURE_INSTRUMENT,
                                  CLAP_PLUGIN_FEATURE_SYNTHESIZER})]_vars

\* the calls of a load() from its dlopen on (those before are its close())
C28_OfLoad(cs) ==
    LET opened == {k \in 1..Len(cs) : cs[k].fn = "dlopen"}
    IN  IF opened = {} THEN << >>
        ELSE SubSeq(cs, CHOOSE k \in opened : TRUE, Len(cs))

\* the step of load() a call named fn belongs to, 1 (entry init) to
\* 10 (start-processing), inited telling whether plugin init came before it;
\* 0 for the loader's calls and the calls that undo a failed load
C28_Step(fn, inited) ==
    CASE fn = "entry.init"                                -> 1
      [] fn = "entry.get_factory" /\ ~inited              -> 2
      [] fn = "factory.get_plugin_count"                  -> 3
      [] fn = "factory.get_plugin_descriptor" /\ ~inited  -> 3
      [] fn = "factory.create_plugin"                     -> 4
      [] fn = "plugin.init"                               -> 5
      [] fn = "plugin.get_extension"                      -> 6
      [] fn \in {"params.count", "params.get_info"}       -> 7
      [] fn \in {"entry.get_factory", "factory.get_plugin_descriptor",
                 "discovery.count", "discovery.get_descriptor",
                 "discovery.create", "provider.init", "provider.destroy",
                 "provider.get_metadata"}                 -> 8
      [] fn = "plugin.activate"                           -> 9
      [] fn = "plugin.start_processing"                   -> 10
      [] OTHER                                            -> 0

\* the last step a load() reaches when it fails at failAt
C28_LastStep(failAt) ==
    CASE failAt \in {"open", "sym"}   -> 0
      [] failAt = "entry_init"        -> 1
      [] failAt = "factory"           -> 2
      [] failAt \in {"count", "desc"} -> 3
      [] failAt = "create"            -> 4
      [] failAt = "init"              -> 5
      [] failAt = "activate"          -> 9
      [] OTHER                        -> 10

\* the number of calls named fn in cs
C28_Count(cs, fn) == Cardinality({k \in 1..Len(cs) : cs[k].fn = fn})

\* C28: the calls of a load() run through the steps entry init, factory
\* lookup, descriptor lookup, create, plugin init, extension queries,
\* parameter caching, preset discovery, activate, start-processing in this
\* order, every step up to the last one reached is taken and none is taken
\* again after a later one, no step follows a call that undoes the load, and
\* a load that gets past plugin init counts the parameters (when the plugin
\* has the extension) and looks up the discovery factory once each, between
\* plugin init and activate.
C28_LoadStepsInOrder ==
    [][(lastOp'.op = "load" /\ ~crashed') =>
          \E cs \in {C28_OfLoad(calls')}, last \in {C28_LastStep(lastOp'.a)} :
          \E n \in {Len(cs)}, inits \in {{k \in 1..Len(cs) : cs[k].fn = "plugin.init"}} :
          \E step \in {[k \in 1..n |-> C28_Step(cs[k].fn, \E j \in inits : j < k)]} :
              /\ n >= 1
              /\ \A k \in 1..n :
                    step[k] = 0 => \/ cs[k].fn = "dlopen" /\ k = 1
                                   \/ cs[k].fn = "dlsym" /\ k = 2
                                   \/ cs[k].fn \in {"plugin.destroy", "plugin.deactivate",
                                                    "entry.deinit", "dlclose"}
              /\ \A k \in 2..n :
                    step[k] # 0 => (k = 3 \/ step[k-1] # 0) /\ step[k-1] <= step[k]
              /\ {step[k] : k \in 1..n} \ {0} =
                     {r \in 1..last : r = 7 => HasParamsExt(lastOp'.name)}
              /\ \A fn \in {"entry.init", "factory.get_plugin_count",
                            "factory.create_plugin", "plugin.init",
                            "plugin.activate", "plugin.start_processing",
                            "params.count", "discovery.count"} :
                    C28_Count(cs, fn) <= 1
              /\ last >= 5 => C28_Count(cs, "entry.get_factory") =
                                  (IF last < 9 THEN 1
                                   ELSE IF HasDiscoveryFactory(lastOp'.name) THEN 3 ELSE 2)
              /\ last >= 9 => C28_Count(cs, "plugin.get_extension") = 4]_vars

\* a load on a loaded adapter has run through every step and failed at
\* start-processing: it counted the parameters and crawled for presets once
\* each
C28_Witness ==
    /\ lastOp.op = "load" /\ lastOp.name = "fx" /\ lastOp.a = "start" /\ ~crashed
    /\ calls[1].fn = "plugin.stop_processing"
    /\ C28_Count(calls, "params.count") = 1
    /\ C28_Count(calls, "discovery.count") = 1
    /\ C28_Count(calls, "provider.get_metadata") = 1
    /\ C28_Count(calls, "plugin.start_processing") = 1

\* C29: every call into a module is made while that module is mapped, and
\* close() destroys the discovery provider before it calls the entry's deinit
\* and unloads the module.
C29_NoCallAfterUnload ==
    [][/\ \A k \in 1..Len(calls') : calls'[k].live
       /\ lastOp'.op = "close" =>
             \A j, k \in 1..Len(calls') :
                (/\ calls'[j].fn = "provider.destroy"
                 /\ calls'[k].fn \in {"entry.deinit", "dlclose"}) => j < k]_vars

\* what the first k calls of cs leave of a resource of which `held` existed
\* before them: acquired minus released
C30_Balance(cs, k, held, Acquires(_), Releases(_)) ==
    (IF held THEN 1 ELSE 0)
    + Cardinality({j \in 1..k : Acquires(cs[j])})
    - Cardinality({j \in 1..k : Releases(cs[j])})

\* the four resources of a session after the first k calls of cs, as
\* <<instances, initialised entries, opened modules, providers>>
C30_Alive(cs, k) ==
    << C30_Balance(cs, k, m_plugin,
                   LAMBDA c : c.fn = "factory.create_plugin" /\ c.res,
                   LAMBDA c : c.fn = "plugin.destroy"),
       C30_Balance(cs, k, m_entry,
                   LAMBDA c : c.fn = "entry.init" /\ c.res,
                   LAMBDA c : c.fn = "entry.deinit"),
       C30_Balance(cs, k, m_library,
                   LAMBDA c : c.fn = "dlopen" /\ c.res,
                   LAMBDA c : c.fn = "dlclose"),
       C30_Balance(cs, k, m_presetDiscoveryProvider # 0,
                   LAMBDA c : c.fn = "discovery.create" /\ c.res # 0,
                   LAMBDA c : c.fn = "provider.destroy") >>

\* the operation's calls acquire and release the resources one at a time and
\* leave what the adapter's fields say it holds; with `effective`, a release
\* counts only when the call reaches the module
C30_Accounted(effective) ==
    ~crashed' =>
        \E cs \in {calls'} :
           /\ \A k \in 0..Len(cs) :
                 \E alive \in {C30_Alive(cs, k)} :
                    /\ \A i \in 1..4 : alive[i] \in {0, 1}
                    /\ k = Len(cs) =>
                          alive = << IF m_plugin' THEN 1 ELSE 0,
                                     IF m_entry' THEN 1 ELSE 0,
                                     IF m_library' THEN 1 ELSE 0,
                                     IF m_presetDiscoveryProvider' # 0 THEN 1 ELSE 0 >>
           /\ effective =>
                 \A k \in 1..Len(cs) :
                    cs[k].fn \in {"plugin.destroy", "entry.deinit", "provider.destroy"}
                        => cs[k].live
           /\ lastOp'.op \in {"close", "dtor"} =>
                 /\ ~m_plugin' /\ ~m_entry' /\ ~m_library'
                 /\ m_presetDiscoveryProvider' = 0

\* C30: over load(), close() and the destructor at most one instance, one
\* initialised entry, one opened module and one discovery provider exist at
\* a time, each is released by one call that reaches its module, and close()
\* and the destructor leave none.
C30_EveryResourceReleasedOnce ==
    [][C30_Accounted(TRUE)]_vars

\* the state the plugin contract puts an instance in state st into when the
\* call c is made, "illegal" when the contract forbids the call in st; a
\* null create leaves no instance, a failed init leaves one that may only be
\* destroyed, a failed activate or start_processing changes nothing
C31_Contract(st, c) ==
    CASE c.fn = "factory.create_plugin" ->
             IF st # "none" THEN "illegal" ELSE IF c.res THEN "created" ELSE "none"
      [] c.fn = "plugin.init" ->
             IF st # "created" THEN "illegal" ELSE IF c.res THEN "inited" ELSE "failed"
      [] c.fn = "plugin.get_extension" ->
             IF st \in {"inited", "active", "processing"} THEN st ELSE "illegal"
      [] c.fn = "plugin.activate" ->
             IF st # "inited" THEN "illegal" ELSE IF c.res THEN "active" ELSE "inited"
      [] c.fn = "plugin.start_processing" ->
             IF st # "active" THEN "illegal" ELSE IF c.res THEN "processing" ELSE "active"
      [] c.fn = "plugin.process" ->
             IF st = "processing" THEN st ELSE "illegal"
      [] c.fn = "plugin.stop_processing" ->
             IF st = "processing" THEN "active" ELSE "illegal"
      [] c.fn = "plugin.deactivate" ->
             IF st = "active" THEN "inited" ELSE "illegal"
      [] c.fn = "plugin.destroy" ->
             IF st \in {"created", "failed", "inited"} THEN "none" ELSE "illegal"
      [] OTHER -> st

\* the contract state after the calls cs made from state st
RECURSIVE C31_After(_, _)
C31_After(st, cs) ==
    IF cs = << >> \/ st = "illegal" THEN st
    ELSE C31_After(C31_Contract(st, Head(cs)), Tail(cs))

\* C31: from the contract state the instance is in, every operation's calls
\* are ones the plugin contract allows in the state they are made in (activate
\* on an initialised inactive instance, start_processing while activated,
\* process while processing, deactivate when activated and not processing,
\* destroy when not activated, nothing on a destroyed instance), and they
\* leave the instance in the state the adapter takes it to be in.
C31_LegalPluginCalls ==
    [][~crashed' => C31_After(pstate, calls') = pstate']_vars

\* a load on a processing adapter has stopped, deactivated and destroyed the
\* old instance and then rolled back a new one whose start_processing failed
C31_Witness ==
    /\ lastOp.op = "load" /\ lastOp.a = "start" /\ ~crashed
    /\ calls[1].fn = "plugin.stop_processing"
    /\ calls[2].fn = "plugin.deactivate"
    /\ calls[3].fn = "plugin.destroy"
    /\ \E k \in 1..(Len(calls) - 2) :
          /\ calls[k].fn = "plugin.start_processing" /\ ~calls[k].res
          /\ calls[k + 1].fn = "plugin.deactivate"
          /\ calls[k + 2].fn = "plugin.destroy"
    /\ pstate = "none"

\* C32: every process call made to the reference plugin is passed one audio
\* output and no audio input, as the assertions at its entry require.
C32_ProcessAssertionsHold ==
    [][\A k \in 1..Len(calls') :
          (calls'[k].fn = "plugin.process" /\ mapped.base = "ref") =>
              /\ calls'[k].args.audio_outputs_count = 1
              /\ calls'[k].args.audio_inputs_count = 0]_vars

\* C33: a tick taken while bypassed, or with no plugin processing, makes no
\* process call and leaves the pending queue and the steady-time counter as
\* they were; no operation other than a tick removes or reorders a queued
\* event, bypassed or not; and a tick that is neither bypassed nor idle hands
\* the whole queue, in order, to its process call. So what the setters queued
\* while bypassed reaches the first later processing tick.
C33_BypassedTickKeepsQueue ==
    [][/\ (lastOp'.op = "tick" /\ (m_bypass \/ ~m_plugin \/ ~m_processing)) =>
             /\ ~crashed'
             /\ calls' = << >>
             /\ m_eventQueue' = m_eventQueue
             /\ steady_time' = steady_time
       /\ (lastOp'.op # "tick" /\ ~crashed') =>
             /\ Len(m_eventQueue') >= Len(m_eventQueue)
             /\ SubSeq(m_eventQueue', 1, Len(m_eventQueue)) = m_eventQueue
       /\ (lastOp'.op = "tick" /\ ~m_bypass /\ m_plugin /\ m_processing) =>
             /\ Len(calls') = 1 /\ calls'[1].fn = "plugin.process"
             /\ calls'[1].events = m_eventQueue]_vars

\* a bypassed tick on a processing plugin has returned its input and kept the
\* two events queued before it
C33_Witness ==
    /\ lastOp.op = "tick" /\ ~crashed /\ ret = lastOp.a
    /\ m_bypass /\ m_plugin /\ m_processing
    /\ calls = << >>
    /\ Len(m_eventQueue) = 2

\* the calls a load() made before it opened the new module
C34_BeforeOpen(cs) ==
    SubSeq(cs, 1, (CHOOSE k \in 1..Len(cs) : cs[k].fn = "dlopen") - 1)

\* a load() on an adapter that holds a plugin stops, deactivates and destroys
\* it, deinitialises its entry and unloads its module, in this order, before
\* the dlopen of the new module
C34_TornDownFirst ==
    (lastOp'.op = "load" /\ m_plugin /\ ~crashed') =>
        [k \in 1..Len(SelectSeq(C34_BeforeOpen(calls'), LAMBDA c : c.fn # "provider.destroy")) |->
            SelectSeq(C34_BeforeOpen(calls'), LAMBDA c : c.fn # "provider.destroy")[k].fn]
        = C11_Expected

\* C34: load() on a loaded adapter tears the current plugin down completely
\* before it opens the new module, and if the new load fails the adapter is
\* Unloaded (as in C1: nothing held, nothing cached), so that tick passes
\* its input through and the previous plugin is not back.
C34_ReloadTearsDownFirst ==
    [][/\ C34_TornDownFirst
       /\ (lastOp'.op = "load" /\ m_plugin /\ ~crashed' /\ ret' = FALSE) =>
             /\ ~m_plugin' /\ ~m_library' /\ ~m_entry'
             /\ ~m_activated' /\ ~m_processing'
             /\ Len(m_parameters') = 0
             /\ Len(m_presets') = 0]_vars

\* the locations the provider kept by a load of module b declared, as
\* <<kind, location>> pairs in declaration order
C35_DeclaredByKept(b, kept) ==
    IF kept = 0 THEN << >>
    ELSE [k \in 1..Len(Providers(b)[kept].declares) |->
             << Providers(b)[kept].declares[k].kind,
                Providers(b)[kept].declares[k].location >>]

\* C35: the metadata queries of a load() are made for exactly the locations
\* the kept provider declared, and every cached preset lies in one of them;
\* what a provider declared whose init failed is neither crawled nor a source
\* of presets.
C35_OnlyKeptLocationsCrawled ==
    [][(lastOp'.op = "load" /\ ~crashed') =>
          \E crawled \in {SelectSeq(calls', LAMBDA c : c.fn = "provider.get_metadata")},
             declared \in {C35_DeclaredByKept(lastOp'.name, m_presetDiscoveryProvider')} :
             /\ [k \in 1..Len(crawled) |->
                    << crawled[k].args.location_kind, crawled[k].args.location >>] = declared
             /\ \A k \in 1..Len(m_presets') :
                   \E j \in 1..Len(declared) :
                      declared[j] = << m_presets'[k].location_kind,
                                       m_presets'[k].location >>]_vars

\* the ids the plugin of module b reports through get_info
C36_ReportedIds(b) ==
    {ParamsGetInfo(b, i).id : i \in {i \in 0..(ParamsCount(b) - 1) : ParamsGetInfo(b, i).ok}}

\* C36: every parameter-value event a process call is handed carries an id
\* the plugin that receives it reported through get_info, so that the
\* reference plugin's parameters[param_id] is written below its parameter
\* count.
C36_DeliveredIdsReported ==
    [][\A k \in 1..Len(calls') :
          calls'[k].fn = "plugin.process" =>
              \A j \in 1..Len(calls'[k].events) :
                 calls'[k].events[j].type = CLAP_EVENT_PARAM_VALUE =>
                     /\ calls'[k].events[j].param_id \in C36_ReportedIds(mapped.base)
                     /\ mapped.base = "ref" =>
                            calls'[k].events[j].param_id < P_COUNT]_vars

\* the voices, or note events, of seq that carry the key and the channel of kc
C37_Of(seq, kc) ==
    SelectSeq(seq, LAMBDA x : x.key = kc[1] /\ x.channel = kc[2])

\* the note-on and note-off events of an event list
C37_Notes(evs) ==
    SelectSeq(evs, LAMBDA e : e.type \in {CLAP_EVENT_NOTE_ON, CLAP_EVENT_NOTE_OFF})

\* C37: the reference plugin holds no released voice when a process call has
\* returned. For every key and channel (note ids being -1), a process call
\* leaves a voice exactly when the last note event for them was a note-on, or
\* when there was none and a voice was held before; it leaves at most one; and
\* every other voice that existed during the call, released by a note-off or
\* superseded by a note-on, is gone and has exactly one note-end event pushed.
C37_ReleasedVoicesEnd ==
    /\ [](\A k \in 1..Len(pdata.voices) : pdata.voices[k].held)
    /\ [][(lastOp'.op = "tick" /\ ~crashed' /\ mapped.base = "ref" /\ calls' # << >>) =>
             \E pre \in {pdata.voices}, post \in {pdata'.voices},
                notes \in {C37_Notes(calls'[1].events)},
                ends \in {SelectSeq(calls'[1].pushed,
                                    LAMBDA e : e.type = CLAP_EVENT_NOTE_END)} :
                /\ \A k \in 1..Len(notes) : notes[k].note_id = -1
                /\ \A kc \in {<<pre[k].key, pre[k].channel>> : k \in 1..Len(pre)}
                             \cup {<<notes[k].key, notes[k].channel>> : k \in 1..Len(notes)}
                             \cup {<<post[k].key, post[k].channel>> : k \in 1..Len(post)}
                             \cup {<<ends[k].key, ends[k].channel>> : k \in 1..Len(ends)} :
                      \E mine \in {C37_Of(notes, kc)} :
                         /\ Len(C37_Of(post, kc)) <= 1
                         /\ Len(C37_Of(post, kc)) = 1 <=>
                                IF mine = << >> THEN Len(C37_Of(pre, kc)) = 1
                                ELSE mine[Len(mine)].type = CLAP_EVENT_NOTE_ON
                         /\ Len(C37_Of(pre, kc))
                            + Len(SelectSeq(mine, LAMBDA e : e.type = CLAP_EVENT_NOTE_ON))
                            = Len(C37_Of(post, kc)) + Len(C37_Of(ends, kc))]_vars

\* a process call has released the voice of key 60 on a note-off and the
\* voice of key 61 on a new note-on for it: two note-ends were pushed and the
\* new voice of key 61 is the only one left
C37_Witness ==
    /\ lastOp.op = "tick" /\ ~crashed /\ mapped.base = "ref"
    /\ Len(calls) = 1 /\ calls[1].fn = "plugin.process"
    /\ Len(calls[1].events) = 2
    /\ calls[1].events[1].type = CLAP_EVENT_NOTE_OFF /\ calls[1].events[1].key = 60
    /\ calls[1].events[2].type = CLAP_EVENT_NOTE_ON /\ calls[1].events[2].key = 61
    /\ Len(calls[1].pushed) = 2
    /\ calls[1].pushed[1].type = CLAP_EVENT_NOTE_END /\ calls[1].pushed[1].key = 60
    /\ calls[1].pushed[2].type = CLAP_EVENT_NOTE_END /\ calls[1].pushed[2].key = 61
    /\ Len(pdata.voices) = 1 /\ pdata.voices[1].key = 61 /\ pdata.voices[1].held
====
